---- MODULE Spec2Model ----
(***************************************************************************)
(* The catalog creation and initialization pipeline of the firecamp manage *)
(* server: manage/server/catalogservice.go and manage/server/server.go.    *)
(*                                                                         *)
(* The metadata DB (services, attributes, members, config files), the      *)
(* container platform and the in-memory init task runner are the state.    *)
(* Every HTTP handler is a small step machine run by a request process:    *)
(* one step per access to shared state, so that concurrent handlers        *)
(* interleave exactly where the Go code can be preempted.                  *)
(***************************************************************************)
EXTENDS Integers, Sequences, FiniteSets, TLC

\* ------------------------------------------------------------------ bounds

\* The replica count of the create requests.
MaxMembers == 1
\* Largest config file version the Consul rewrite is allowed to reach (the
\* rewrite has no probe, so every CreateConsul retry adds a version).
MaxVersion == 2

\* ------------------------------------------------------------- value sets

\* Concurrent client requests (ServeHTTP runs each on its own goroutine):
\* a client that sends any request, and one that only polls CheckServiceInit.
Clients == {"c1"}
Pollers == {"c2"}
\* The process of the container job that an init task runs; it calls back
\* SetServiceInit / SetRedisInit like any client.
Job == "job"
Procs == Clients \cup Pollers \cup {Job}

SvcName == "s1"
\* A service that exists in the DB from the start: the ZooKeeper service a
\* Kafka create refers to, the Elasticsearch service a Kibana create refers to.
DepName == "dep"
RefNames == {DepName, "missing"}

InitKinds == {"MongoDB", "Cassandra", "CouchDB", "Redis"}
FlipKinds == {"PostgreSQL", "ZooKeeper", "Kafka"}
Kinds == InitKinds \cup FlipKinds \cup {"Consul", "ElasticSearch", "Kibana", "Logstash"}
\* serviceType values a request can carry.
ReqTypes == Kinds

\* The serviceUUIDs the control plane hands out, in order.
UUIDPool == <<"u1", "u2", "u3">>
NoUUID == "nouuid"
DepUUID == "udep"
NoStatus == "NONE"
Creating == "CREATING"
Initializing == "INITIALIZING"
Active == "ACTIVE"
Deleting == "DELETING"

\* HTTP results, manage.ConvertToHTTPError's codes by name.
OK == "OK"
BadRequest == "BadRequest"
NotFound == "NotFound"
Conflict == "Conflict"
Internal == "Internal"
ConfigMismatch == "ConfigMismatch"

NodeIdsA == <<"n0", "n1">>
NodeIdsB == <<"x0", "x1">>
\* The NodeIds a SetRedisInit request may carry.
NodeIdChoices == {NodeIdsA, NodeIdsB}

MsgMongoAuth == "enable auth for MongoDB"
MsgMongoRestart == "restarting all MongoDB containers"
MsgRedisMap == "create the member to Redis nodeID mapping for the Redis cluster"
MsgRedisRestart == "restarting all containers"

\* ------------------------------------------------------------ config model

MemberNames == <<"s1-0", "s1-1", "s1-2">>
StaticIPs == <<"ip0", "ip1", "ip2">>
Domain == "c1-firecamp.com"

SysFileName == "service.conf"
MongoFileName == "mongod.conf"
RedisFileName == "redis.conf"
ClusterInfoFileName == "cluster.info"
ConsulFileName == "basic_config.json"
PlainFileName == "member.conf"

\* dns.GenDNSName(memberName, domain)
GenDNSName(m, domain) == [kind |-> "dns", v |-> m, d |-> domain]
IPAddr(ip) == [kind |-> "ip", v |-> ip, d |-> ""]

\* The content of a config file: the facts about it the mutators read and
\* write.  auth: auth is enabled; ip: the cluster-announce-ip ("" unset);
\* ids: the Redis node ids of a cluster.info file; addrs: the member
\* addresses of a Consul basic config.
NoContent == [t |-> "none", auth |-> FALSE, ip |-> "", ids |-> <<>>, addrs |-> <<>>]
PlainContent(t) == [NoContent EXCEPT !.t = t]

\* utils.GenMD5(content): a digest that identifies the content.
GenMD5(content) == [md5 |-> content]

\* utils.GenMemberConfigFileID(memberName, fileName, version)
GenMemberConfigFileID(m, f, version) == [m |-> m, f |-> f, v |-> version]
\* utils.GetConfigFileVersion(fileID)
GetConfigFileVersion(fileID) == fileID.v

NoFileID == GenMemberConfigFileID("", "", -1)
NoFile == [su |-> NoUUID, id |-> NoFileID, name |-> "", content |-> NoContent,
           md5 |-> GenMD5(NoContent)]

\* db.CreateInitialConfigFile(serviceUUID, fileID, fileName, fileMode, content)
CreateInitialConfigFile(su, fileID, fileName, content) ==
    [su |-> su, id |-> fileID, name |-> fileName, content |-> content,
     md5 |-> GenMD5(content)]

\* db.UpdateConfigFile(cfgfile, newFileID, newContent)
UpdateConfigFile(cfgfile, newFileID, newContent) ==
    [cfgfile EXCEPT !.id = newFileID, !.content = newContent,
                    !.md5 = GenMD5(newContent)]

\* A probe that never reports auth as enabled.
IsAuthEnabledNever(content) == FALSE

\* mongodbcatalog.IsMongoDBConfFile / IsAuthEnabled / EnableMongoDBAuth
IsMongoDBConfFile(fileName) == fileName = MongoFileName
IsAuthEnabled(content) == content.auth
EnableMongoDBAuth(content) == [content EXCEPT !.auth = TRUE]

\* rediscatalog.IsRedisConfFile / IsClusterInfoFile / NeedToEnableAuth /
\* NeedToSetClusterAnnounceIP / EnableRedisAuth / SetClusterAnnounceIP
IsRedisConfFile(fileName) == fileName = RedisFileName
IsClusterInfoFile(fileName) == fileName = ClusterInfoFileName
NeedToEnableAuth(content) == ~content.auth
NeedToSetClusterAnnounceIP(content) == content.ip = ""
EnableRedisAuth(content) == [content EXCEPT !.auth = TRUE]
SetClusterAnnounceIP(content, ip) == [content EXCEPT !.ip = ip]
\* rediscatalog.CreateClusterInfoFile(nodeIds)
CreateClusterInfoFile(nodeIds) ==
    [name |-> ClusterInfoFileName,
     content |-> [PlainContent("clusterinfo") EXCEPT !.ids = nodeIds]]

\* consulcatalog.IsBasicConfigFile / ReplaceMemberName(content, memberips):
\* every address that is a key of memberips is replaced by its ip.
IsBasicConfigFile(fileName) == fileName = ConsulFileName
ReplaceMemberName(content, memberips) ==
    [content EXCEPT !.addrs =
        [k \in DOMAIN content.addrs |->
            IF content.addrs[k] \in DOMAIN memberips
            THEN IPAddr(memberips[content.addrs[k]])
            ELSE content.addrs[k]]]

\* The main config file of a catalog kind, as its generator writes it by
\* default: auth off, no announce ip, Consul members by DNS name.
MainFileName(kind) ==
    CASE kind = "MongoDB" -> MongoFileName
      [] kind = "Redis" -> RedisFileName
      [] kind = "Consul" -> ConsulFileName
      [] OTHER -> PlainFileName
MainContent(kind, replicas) ==
    CASE kind = "MongoDB" -> PlainContent("mongod")
      [] kind = "Redis" -> PlainContent("redis")
      [] kind = "Consul" ->
            [PlainContent("consul") EXCEPT !.addrs =
                [k \in 1..replicas |-> GenDNSName(MemberNames[k], Domain)]]
      [] OTHER -> PlainContent("plain")

\* <catalog>.GenDefaultCreateServiceRequest: the default config files of
\* every member, in slot order.
DefaultConfigs(kind, replicas) ==
    << [name |-> SysFileName, content |-> PlainContent("sys")],
       [name |-> MainFileName(kind), content |-> MainContent(kind, replicas)] >>

\* ------------------------------------------------------------------- state

VARIABLES
    services,    \* metadata DB: serviceName -> serviceUUID (NoUUID: absent)
    uuidCount,   \* how many serviceUUIDs have been handed out
    attrs,       \* metadata DB: serviceUUID -> ServiceAttr
    members,     \* metadata DB: serviceUUID -> the ServiceMembers, in list order
    files,       \* metadata DB: the ConfigFile records
    containers,  \* container platform: the services that exist on it
    initTasks,   \* catalogSvcInit: the live init tasks
    proc         \* every request process: its handler, position and locals

dbVars == <<services, uuidCount, attrs, members, files>>
platformVars == <<containers>>
vars == <<services, uuidCount, attrs, members, files, containers, initTasks, proc>>

NoOpts == [replicas |-> 0, cluster |-> FALSE, ref |-> "", nodeIds |-> <<>>]
NoResp == [code |-> "", initialized |-> FALSE, msg |-> "", ips |-> <<>>]
NoMember == [name |-> "", ip |-> "", configs |-> <<>>]

\* A request process at rest.
IdleProc ==
    [op |-> "none", pc |-> "idle", kind |-> "none", opts |-> NoOpts,
     uuid |-> NoUUID, hasTask |-> FALSE, msg |-> "", status |-> NoStatus,
     replicas |-> 0, mems |-> <<>>, i |-> 0, j |-> 0, member |-> NoMember,
     cf |-> NoFile, nf |-> NoFile, back |-> "", resp |-> NoResp]

Init ==
    /\ services = [n \in {SvcName} |-> NoUUID]
    /\ uuidCount = 0
    /\ attrs = << >>
    /\ members = << >>
    /\ files = {}
    /\ containers = {}
    /\ initTasks = {}
    /\ proc = [p \in Procs |-> IdleProc]

\* ------------------------------------------------------------ metadata DB

\* db.GetService(cluster, serviceName): the serviceUUID, NoUUID when absent.
GetService(name) ==
    IF name = DepName THEN DepUUID
    ELSE IF name \in DOMAIN services THEN services[name] ELSE NoUUID

HasAttr(u) == u \in DOMAIN attrs
\* db.GetServiceAttr(serviceUUID).ServiceStatus
StatusOf(u) == IF HasAttr(u) THEN attrs[u].status ELSE NoStatus

\* db.ListServiceMembers(serviceUUID)
ListServiceMembers(u) == IF u \in DOMAIN members THEN members[u] ELSE << >>

\* The index of the stored member with this name, 0 when there is none.
MemberIndex(u, name) ==
    LET ms == ListServiceMembers(u)
        hits == {k \in DOMAIN ms : ms[k].name = name}
    IN  IF hits = {} THEN 0 ELSE CHOOSE k \in hits : TRUE

\* A member update that only needs the member to be stored, whatever the
\* stored member is.
CanUpdateServiceMemberByName(u, old) ==
    MemberIndex(u, old.name) # 0

\* db.UpdateServiceMember(oldMember, newMember) succeeds only when the stored
\* member still equals oldMember.
CanUpdateServiceMember(u, old) ==
    /\ MemberIndex(u, old.name) # 0
    /\ ListServiceMembers(u)[MemberIndex(u, old.name)] = old
UpdateServiceMember(u, old, new) ==
    [members EXCEPT ![u][MemberIndex(u, old.name)] = new]

\* db.GetConfigFile(serviceUUID, fileID): the stored files with this id.
FilesWithID(u, fileID) == {f \in files : f.su = u /\ f.id = fileID}
HasConfigFile(u, fileID) == FilesWithID(u, fileID) # {}
GetConfigFile(u, fileID) == CHOOSE f \in FilesWithID(u, fileID) : TRUE

\* A create that does not compare the stored file's MD5.
CreateConfigFileNoCheck(cfgfile) == TRUE

\* manage.CreateConfigFile(ctx, dbIns, cfgfile, requuid): creates the file;
\* when a file with the id exists it is returned if its MD5 equals the new
\* content's MD5, and the call fails with ErrConfigMismatch otherwise.
CreateConfigFileOK(cfgfile) ==
    \/ ~HasConfigFile(cfgfile.su, cfgfile.id)
    \/ GetConfigFile(cfgfile.su, cfgfile.id).md5 = cfgfile.md5
CreateConfigFile(cfgfile) ==
    IF HasConfigFile(cfgfile.su, cfgfile.id) THEN files ELSE files \cup {cfgfile}

\* db.DeleteConfigFile(serviceUUID, fileID)
DeleteConfigFile(u, fileID) == files \ FilesWithID(u, fileID)

\* db.CopyMemberConfigs + db.UpdateServiceMemberConfigs(member, newConfigs)
UpdateServiceMemberConfigs(member, newConfigs) ==
    [member EXCEPT !.configs = newConfigs]

\* --------------------------------------------------- catalogSvcInit runner

\* A live init task.  st: "new" (registered, its job not started yet),
\* "running", "failed" (the entry is kept with its last status message).
NewTask(u, type) == [uuid |-> u, type |-> type, msg |-> "", st |-> "new"]
TasksOf(u) == {t \in initTasks : t.uuid = u}

\* catalogSvcInit.hasInitTask(ctx, serviceUUID): (hasTask, statusMsg)
hasInitTask(u) == TasksOf(u) # {}
TaskStatusMsg(u) == IF hasInitTask(u) THEN (CHOOSE t \in TasksOf(u) : TRUE).msg ELSE ""

\* An insert that replaces the service's live task.
addInitTaskReplace(task) ==
    {t \in initTasks : t.uuid # task.uuid} \cup {task}

\* catalogSvcInit.addInitTask(ctx, task): a guarded insert under the runner's
\* lock; a service that already has a task keeps it.
addInitTask(task) ==
    IF hasInitTask(task.uuid) THEN initTasks ELSE initTasks \cup {task}

\* catalogSvcInit.UpdateTaskStatusMsg(serviceUUID, statusMsg)
UpdateTaskStatusMsg(u, statusMsg) ==
    {IF t.uuid = u THEN [t EXCEPT !.msg = statusMsg] ELSE t : t \in initTasks}

\* ------------------------------------------------------- service registry

\* manageservice.SetServiceInitialized(ctx, cluster, serviceName): the
\* INITIALIZING -> ACTIVE transition; an ACTIVE service stays ACTIVE, any
\* other status (and an absent service) is an error.
SetServiceInitializedOK(name) ==
    StatusOf(GetService(name)) \in {Initializing, Active}
SetServiceInitialized(name) ==
    [attrs EXCEPT ![GetService(name)].status = Active]

\* A flip that does not look at the stored status.
SetServiceInitializingAlways(u) ==
    [attrs EXCEPT ![u].status = Initializing]

\* The status flip that ends the create protocol: CREATING -> INITIALIZING
\* once the metadata and the container platform both hold the service.
SetServiceInitializing(u) ==
    IF StatusOf(u) = Creating
    THEN [attrs EXCEPT ![u].status = Initializing]
    ELSE attrs

\* ------------------------------------------------------- process helpers

\* The process record of a handler that has returned.
Done(pr, code, initialized, msg, ips) ==
    [IdleProc EXCEPT !.op = pr.op, !.kind = pr.kind, !.pc = "done",
        !.resp = [code |-> code, initialized |-> initialized, msg |-> msg,
                  ips |-> ips]]

Finish(p, code) == proc' = [proc EXCEPT ![p] = Done(proc[p], code, FALSE, "", << >>)]
Goto(p, pc) == proc' = [proc EXCEPT ![p].pc = pc]
At(p, op, pc) == proc[p].op = op /\ proc[p].pc = pc

\* manage.ConvertToHTTPError of the error a missing service or attribute gives.
LookupError(u) == IF u = NoUUID THEN NotFound ELSE Internal

\* ------------------------------------------------------------ create flow

\* The options of a catalog create request.
CreateOpts(kind) ==
    {[replicas |-> MaxMembers, cluster |-> c, ref |-> ref, nodeIds |-> << >>] :
        c \in (IF kind = "Redis" THEN BOOLEAN ELSE {FALSE}),
        ref \in (IF kind \in {"Kafka", "Kibana"} THEN RefNames ELSE {""})}

\* rediscatalog.IsClusterMode(shards), and whether a kind's create registers
\* an init task.
RequiresInit(kind, opts) ==
    kind \in InitKinds /\ (kind = "Redis" => opts.cluster)

\* Every stored config file is below the version cap.
BelowVersionCap == \A f \in files : GetConfigFileVersion(f.id) < MaxVersion

\* create<Catalog>Service, up to the call of createCommonService: decode,
\* the cluster/region check, ValidateRequest (reqok), and for Kafka and
\* Kibana the lookup of the service the request refers to.
StartCreate(p, kind, opts, reqok) ==
    /\ p \in Clients
    /\ proc[p].pc = "idle"
    /\ kind = "Consul" => BelowVersionCap
    /\ LET pr == [IdleProc EXCEPT !.op = "create", !.kind = kind, !.opts = opts]
       IN  proc' = [proc EXCEPT ![p] =
                IF ~reqok THEN Done(pr, BadRequest, FALSE, "", << >>)
                ELSE IF kind \in {"Kafka", "Kibana"} /\ GetService(opts.ref) = NoUUID
                THEN Done(pr, NotFound, FALSE, "", << >>)
                ELSE [pr EXCEPT !.pc = "cs_service"]]
    /\ UNCHANGED <<dbVars, platformVars, initTasks>>

\* A generic create that goes to the container platform first.
StartGenericCreatePlatformFirst(p, reqok) ==
    /\ p \in Clients
    /\ proc[p].pc = "idle"
    /\ LET pr == [IdleProc EXCEPT !.op = "gencreate", !.kind = "Generic",
                     !.opts = [NoOpts EXCEPT !.replicas = MaxMembers]]
       IN  proc' = [proc EXCEPT ![p] =
                IF ~reqok THEN Done(pr, BadRequest, FALSE, "", << >>)
                ELSE [pr EXCEPT !.pc = "g_exist"]]
    /\ UNCHANGED <<dbVars, platformVars, initTasks>>

\* createService (PUT /<serviceName>): decode and the cluster, region and
\* service name check.
StartGenericCreate(p, reqok) ==
    /\ p \in Clients
    /\ proc[p].pc = "idle"
    /\ LET pr == [IdleProc EXCEPT !.op = "gencreate", !.kind = "Generic",
                     !.opts = [NoOpts EXCEPT !.replicas = MaxMembers]]
       IN  proc' = [proc EXCEPT ![p] =
                IF ~reqok THEN Done(pr, BadRequest, FALSE, "", << >>)
                ELSE [pr EXCEPT !.pc = "cs_service"]]
    /\ UNCHANGED <<dbVars, platformVars, initTasks>>

InCreate(p) == proc[p].op \in {"create", "gencreate"}

\* manageservice.CreateService, step 1: the Service record.  An existing
\* (cluster, serviceName) keeps its serviceUUID; a new one gets the next.
NewServiceUUID == UUIDPool[uuidCount + 1]
CreateServiceRecord(p) ==
    /\ InCreate(p)
    /\ proc[p].pc = "cs_service"
    /\ IF services[SvcName] = NoUUID
       THEN /\ uuidCount < Len(UUIDPool)
            /\ services' = [services EXCEPT ![SvcName] = NewServiceUUID]
            /\ uuidCount' = uuidCount + 1
            /\ proc' = [proc EXCEPT ![p].uuid = NewServiceUUID, ![p].pc = "cs_attr"]
       ELSE /\ proc' = [proc EXCEPT ![p].uuid = services[SvcName], ![p].pc = "cs_attr"]
            /\ UNCHANGED <<services, uuidCount>>
    /\ UNCHANGED <<attrs, members, files, platformVars, initTasks>>

\* manageservice.CreateService, step 2: the ServiceAttr, created CREATING;
\* an existing attribute with other parameters is ErrServiceExist.
NewAttr(pr) ==
    [status |-> Creating, kind |-> pr.kind, replicas |-> pr.opts.replicas,
     cluster |-> pr.opts.cluster]
SameParams(attr, pr) ==
    /\ attr.kind = pr.kind
    /\ attr.replicas = pr.opts.replicas
    /\ attr.cluster = pr.opts.cluster
CreateServiceAttr(p) ==
    /\ InCreate(p)
    /\ proc[p].pc = "cs_attr"
    /\ LET u == proc[p].uuid
       IN  IF ~HasAttr(u)
           THEN /\ attrs' = attrs @@ (u :> NewAttr(proc[p]))
                /\ proc' = [proc EXCEPT ![p].pc = "cs_files", ![p].i = 1]
           ELSE /\ UNCHANGED attrs
                /\ IF SameParams(attrs[u], proc[p])
                   THEN proc' = [proc EXCEPT ![p].pc = "cs_files", ![p].i = 1]
                   ELSE Finish(p, Conflict)
    /\ UNCHANGED <<services, uuidCount, members, files, platformVars, initTasks>>

\* A create that goes from the control plane straight to the status flip.
AfterControlPlaneSkipsContainer(pr) ==
    IF pr.op = "gencreate" THEN "g_exist"
    ELSE IF pr.kind = "Consul" THEN "c_list" ELSE "cc_flip"

\* A CreateConsul that goes to the container platform without the rewrite.
AfterControlPlaneNoRewrite(pr) ==
    IF pr.op = "gencreate" THEN "g_exist" ELSE "cc_exist"

\* The pc after the control-plane create: createService and
\* createCommonService go on to the container platform, createConsulService
\* rewrites the member configs first.
AfterControlPlane(pr) ==
    IF pr.op = "gencreate" THEN "g_exist"
    ELSE IF pr.kind = "Consul" THEN "c_list" ELSE "cc_exist"

\* The initial config files of member i and the slots that reference them.
InitialFiles(u, kind, replicas, i) ==
    LET cfgs == DefaultConfigs(kind, replicas)
    IN  [k \in DOMAIN cfgs |->
            CreateInitialConfigFile(u,
                GenMemberConfigFileID(MemberNames[i], cfgs[k].name, 0),
                cfgs[k].name, cfgs[k].content)]
InitialMember(u, kind, replicas, i) ==
    LET fs == InitialFiles(u, kind, replicas, i)
    IN  [name |-> MemberNames[i], ip |-> StaticIPs[i],
         configs |-> [k \in DOMAIN fs |->
            [fileName |-> fs[k].name, fileID |-> fs[k].id, fileMD5 |-> fs[k].md5]]]

\* manageservice.CreateService, step 3a: the default config files of the
\* next member that is not stored yet.
CreateMemberFiles(p) ==
    /\ InCreate(p)
    /\ proc[p].pc = "cs_files"
    /\ LET pr == proc[p]
           fs == InitialFiles(pr.uuid, pr.kind, pr.opts.replicas, pr.i)
           new == {fs[k] : k \in DOMAIN fs}
       IN  IF pr.i > pr.opts.replicas
           THEN /\ proc' = [proc EXCEPT ![p].pc = AfterControlPlane(pr), ![p].i = 0]
                /\ UNCHANGED files
           ELSE IF MemberIndex(pr.uuid, MemberNames[pr.i]) # 0
           THEN /\ proc' = [proc EXCEPT ![p].i = pr.i + 1]
                /\ UNCHANGED files
           ELSE IF \A f \in new : CreateConfigFileOK(f)
           THEN /\ files' = files \cup {f \in new : ~HasConfigFile(f.su, f.id)}
                /\ proc' = [proc EXCEPT ![p].pc = "cs_member"]
           ELSE /\ Finish(p, ConfigMismatch)
                /\ UNCHANGED files
    /\ UNCHANGED <<services, uuidCount, attrs, members, platformVars, initTasks>>

\* manageservice.CreateService, step 3b: the ServiceMember record, with its
\* static ip, unless another request stored it meanwhile.
AppendMember(u, m) ==
    IF u \in DOMAIN members
    THEN [members EXCEPT ![u] = Append(@, m)]
    ELSE members @@ (u :> <<m>>)
CreateMemberRecord(p) ==
    /\ InCreate(p)
    /\ proc[p].pc = "cs_member"
    /\ LET pr == proc[p]
       IN  members' =
              IF MemberIndex(pr.uuid, MemberNames[pr.i]) # 0 THEN members
              ELSE AppendMember(pr.uuid,
                      InitialMember(pr.uuid, pr.kind, pr.opts.replicas, pr.i))
    /\ proc' = [proc EXCEPT ![p].pc = "cs_files", ![p].i = proc[p].i + 1]
    /\ UNCHANGED <<services, uuidCount, attrs, files, platformVars, initTasks>>

\* A create that takes the service to be absent from the container platform
\* whatever IsServiceExist reports.
IsServiceExistAlwaysAbsent(p) ==
    /\ InCreate(p)
    /\ proc[p].pc \in {"cc_exist", "g_exist"}
    /\ proc' = [proc EXCEPT ![p].pc =
          IF proc[p].pc = "g_exist" THEN "g_create" ELSE "cc_create"]
    /\ UNCHANGED <<dbVars, platformVars, initTasks>>

\* createContainerService / createService: containersvcIns.IsServiceExist.
\* The catalog creates continue at cc_*, the generic create at g_*.
IsServiceExist(p) ==
    /\ InCreate(p)
    /\ proc[p].pc \in {"cc_exist", "g_exist"}
    /\ proc' = [proc EXCEPT ![p].pc =
          IF SvcName \in containers
          THEN (IF proc[p].pc = "g_exist" THEN "g_done" ELSE "cc_flip")
          ELSE (IF proc[p].pc = "g_exist" THEN "g_create" ELSE "cc_create")]
    /\ UNCHANGED <<dbVars, platformVars, initTasks>>

\* createContainerService / createService: containersvcIns.CreateService,
\* reached only when the service was reported absent.
CreateContainerService(p) ==
    /\ InCreate(p)
    /\ proc[p].pc \in {"cc_create", "g_create"}
    /\ containers' = containers \cup {SvcName}
    /\ proc' = [proc EXCEPT ![p].pc =
          IF proc[p].pc = "g_create" THEN "g_done" ELSE "cc_flip"]
    /\ UNCHANGED <<dbVars, initTasks>>

\* createService: "create service done", 200.
GenericCreateDone(p) ==
    /\ At(p, "gencreate", "g_done")
    /\ Finish(p, OK)
    /\ UNCHANGED <<dbVars, platformVars, initTasks>>

\* Every catalog registering an init task after createCommonService.
AfterContainerAlwaysTask(pr) == "add_task"

\* The pc after createCommonService: the init-requiring catalogs register
\* their init task, the others set the service initialized.
AfterContainer(pr) ==
    IF RequiresInit(pr.kind, pr.opts) THEN "add_task" ELSE "set_init"

\* createCommonService's last step: the flip to INITIALIZING.
FlipInitializing(p) ==
    /\ At(p, "create", "cc_flip")
    /\ attrs' = SetServiceInitializing(proc[p].uuid)
    /\ proc' = [proc EXCEPT ![p].pc = AfterContainer(proc[p])]
    /\ UNCHANGED <<services, uuidCount, members, files, platformVars, initTasks>>

\* add<Catalog>InitTask called by create<Catalog>Service, then 200.
CreateAddInitTask(p) ==
    /\ At(p, "create", "add_task")
    /\ initTasks' = addInitTask(NewTask(proc[p].uuid, proc[p].kind))
    /\ Finish(p, OK)
    /\ UNCHANGED <<dbVars, platformVars>>

\* The member addresses a successful CreateConsul answers with.
ServerIPs(mems) == [k \in DOMAIN mems |-> mems[k].ip]

\* setServiceInitialized(ctx, serviceName, requuid), called at the end of
\* the no-init creates, of SetServiceInit, of SetRedisInit, of the PUT
\* /?SetServiceInitialized handler, and by CheckServiceInit for PostgreSQL,
\* ZooKeeper and Kafka: 200 when the service is set ACTIVE, else the error.
SetInitializedStep(p) ==
    /\ proc[p].pc = "set_init"
    /\ IF SetServiceInitializedOK(SvcName)
       THEN /\ attrs' = SetServiceInitialized(SvcName)
            /\ proc' = [proc EXCEPT ![p] =
                  Done(proc[p], OK, proc[p].op = "check", "",
                       IF proc[p].op = "create" /\ proc[p].kind = "Consul"
                       THEN ServerIPs(proc[p].mems) ELSE << >>)]
       ELSE /\ Finish(p, LookupError(GetService(SvcName)))
            /\ UNCHANGED attrs
    /\ UNCHANGED <<services, uuidCount, members, files, platformVars, initTasks>>

\* ------------------------------------------------------ updateMemberConfig

\* The first of the slots the loop over member.Configs selects, 0 if none.
FirstSlot(hits) ==
    IF hits = {} THEN 0 ELSE CHOOSE k \in hits : \A h \in hits : k <= h

\* A next file that skips a version.
NextConfigFileSkipsVersion(member, cfgfile, newContent) ==
    UpdateConfigFile(cfgfile,
        GenMemberConfigFileID(member.name, cfgfile.name,
                              GetConfigFileVersion(cfgfile.id) + 2),
        newContent)

\* updateMemberConfig, lines 1087-1094: the next version of the file.
NextConfigFile(member, cfgfile, newContent) ==
    UpdateConfigFile(cfgfile,
        GenMemberConfigFileID(member.name, cfgfile.name,
                              GetConfigFileVersion(cfgfile.id) + 1),
        newContent)

\* A mutator hands the member, the slot, the fetched file and the new
\* content to updateMemberConfig, which returns to the mutator's loop at back.
CallUpdateMemberConfig(pr, member, j, cfgfile, newContent, back) ==
    [pr EXCEPT !.pc = "u_create", !.member = member, !.j = j, !.cf = cfgfile,
               !.nf = NextConfigFile(member, cfgfile, newContent), !.back = back]

\* An updateMemberConfig that goes to the member update without creating
\* the new file.
UpdateCreateFileSkipped(p) ==
    /\ proc[p].pc = "u_create"
    /\ Goto(p, "u_cas")
    /\ UNCHANGED <<dbVars, platformVars, initTasks>>

\* updateMemberConfig, lines 1096-1100: manage.CreateConfigFile of the new file.
UpdateCreateFile(p) ==
    /\ proc[p].pc = "u_create"
    /\ IF CreateConfigFileOK(proc[p].nf)
       THEN /\ files' = CreateConfigFile(proc[p].nf)
            /\ Goto(p, "u_cas")
       ELSE /\ Finish(p, ConfigMismatch)
            /\ UNCHANGED files
    /\ UNCHANGED <<services, uuidCount, attrs, members, platformVars, initTasks>>

\* A member update that keeps only the slot of the new file.
RepointSlotOnly(member, j, newcfgfile) ==
    UpdateServiceMemberConfigs(member,
        << [fileName |-> newcfgfile.name, fileID |-> newcfgfile.id,
            fileMD5 |-> newcfgfile.md5] >>)

\* updateMemberConfig, lines 1105-1107: the member with slot j pointing to
\* the new file.
RepointSlot(member, j, newcfgfile) ==
    UpdateServiceMemberConfigs(member,
        [member.configs EXCEPT ![j].fileID = newcfgfile.id,
                               ![j].fileMD5 = newcfgfile.md5])

\* A member update that does not compare the stored member with the image
\* the handler read.
UpdateCASMemberOverwrites(p) ==
    /\ proc[p].pc = "u_cas"
    /\ LET pr == proc[p]
       IN  IF MemberIndex(pr.uuid, pr.member.name) # 0
           THEN /\ members' = UpdateServiceMember(pr.uuid, pr.member,
                                  RepointSlot(pr.member, pr.j, pr.nf))
                /\ Goto(p, "u_delete")
           ELSE /\ Finish(p, Internal)
                /\ UNCHANGED members
    /\ UNCHANGED <<services, uuidCount, attrs, files, platformVars, initTasks>>

\* updateMemberConfig, lines 1109-1114: the conditional update of the member.
UpdateCASMember(p) ==
    /\ proc[p].pc = "u_cas"
    /\ LET pr == proc[p]
       IN  IF CanUpdateServiceMember(pr.uuid, pr.member)
           THEN /\ members' = UpdateServiceMember(pr.uuid, pr.member,
                                  RepointSlot(pr.member, pr.j, pr.nf))
                /\ Goto(p, "u_delete")
           ELSE /\ Finish(p, Internal)
                /\ UNCHANGED members
    /\ UNCHANGED <<services, uuidCount, attrs, files, platformVars, initTasks>>

\* An updateMemberConfig that returns the error of a failed delete.
UpdateDeleteOldPropagates(p, deleted) ==
    /\ proc[p].pc = "u_delete"
    /\ IF deleted
       THEN /\ files' = DeleteConfigFile(proc[p].cf.su, proc[p].cf.id)
            /\ proc' = [proc EXCEPT ![p].pc = proc[p].back, ![p].i = proc[p].i + 1,
                                    ![p].member = NoMember, ![p].j = 0,
                                    ![p].cf = NoFile, ![p].nf = NoFile, ![p].back = ""]
       ELSE /\ Finish(p, Internal)
            /\ UNCHANGED files
    /\ UNCHANGED <<services, uuidCount, attrs, members, platformVars, initTasks>>

\* updateMemberConfig, lines 1122-1130: the old file is deleted; a failed
\* delete (deleted FALSE) is only logged.  The mutator goes to its next member.
UpdateDeleteOld(p, deleted) ==
    /\ proc[p].pc = "u_delete"
    /\ files' = IF deleted THEN DeleteConfigFile(proc[p].cf.su, proc[p].cf.id)
                ELSE files
    /\ proc' = [proc EXCEPT ![p].pc = proc[p].back, ![p].i = proc[p].i + 1,
                            ![p].member = NoMember, ![p].j = 0,
                            ![p].cf = NoFile, ![p].nf = NoFile, ![p].back = ""]
    /\ UNCHANGED <<services, uuidCount, attrs, members, platformVars, initTasks>>

\* ------------------------------------------------------- Consul rewrite

\* updateConsulConfigs, lines 1034-1046: list the members; memberips maps
\* each member's DNS name to its static ip.
ConsulListMembers(p) ==
    /\ At(p, "create", "c_list")
    /\ proc' = [proc EXCEPT ![p].mems = ListServiceMembers(proc[p].uuid),
                            ![p].i = 1, ![p].pc = "c_getcfg"]
    /\ UNCHANGED <<dbVars, platformVars, initTasks>>

MemberIPOf(mems, a) ==
    mems[CHOOSE k \in DOMAIN mems : GenDNSName(mems[k].name, Domain) = a].ip
ConsulMemberIPs(mems) ==
    [a \in {GenDNSName(mems[k].name, Domain) : k \in DOMAIN mems} |->
        MemberIPOf(mems, a)]

\* A rewrite that leaves every member's basic config as it is.
ConsulMemberConfigSkipped(p) ==
    /\ At(p, "create", "c_getcfg")
    /\ proc' = [proc EXCEPT ![p].pc = "cc_exist", ![p].i = 0]
    /\ UNCHANGED <<dbVars, platformVars, initTasks>>

\* updateConsulMemberConfig: fetch the member's basic config file and hand
\* the content with the member names replaced to updateMemberConfig.
ConsulMemberConfig(p) ==
    /\ At(p, "create", "c_getcfg")
    /\ LET pr == proc[p]
           member == pr.mems[pr.i]
           j == FirstSlot({k \in DOMAIN member.configs : IsBasicConfigFile(member.configs[k].fileName)})
           fid == member.configs[j].fileID
           cfgfile == GetConfigFile(pr.uuid, fid)
       IN  proc' = [proc EXCEPT ![p] =
              IF pr.i > Len(pr.mems) THEN [pr EXCEPT !.pc = "cc_exist", !.i = 0]
              ELSE IF ~HasConfigFile(pr.uuid, fid)
              THEN Done(pr, Internal, FALSE, "", << >>)
              ELSE CallUpdateMemberConfig(pr, member, j, cfgfile,
                      ReplaceMemberName(cfgfile.content, ConsulMemberIPs(pr.mems)),
                      "c_getcfg")]
    /\ UNCHANGED <<dbVars, platformVars, initTasks>>

\* ------------------------------------------------- SetServiceInit handlers

\* PUT /?SetServiceInitialized (server.go setServiceInitialized): decode and
\* the cluster/region check.
StartSetServiceInitialized(p, reqok) ==
    /\ p \in Clients
    /\ proc[p].pc = "idle"
    /\ LET pr == [IdleProc EXCEPT !.op = "setinitialized"]
       IN  proc' = [proc EXCEPT ![p] =
              IF ~reqok THEN Done(pr, BadRequest, FALSE, "", << >>)
              ELSE [pr EXCEPT !.pc = "set_init"]]
    /\ UNCHANGED <<dbVars, platformVars, initTasks>>

\* A switch whose default case sets the service initialized.
SetServiceInitDispatchFlipsAll(pr, reqok) ==
    IF ~reqok THEN Done(pr, BadRequest, FALSE, "", << >>)
    ELSE IF pr.kind = "MongoDB" THEN [pr EXCEPT !.pc = "m_get"]
    ELSE [pr EXCEPT !.pc = "set_init"]

\* catalogSetServiceInit: decode, the cluster/region check and the switch
\* on req.ServiceType.
SetServiceInitDispatch(pr, reqok) ==
    IF ~reqok THEN Done(pr, BadRequest, FALSE, "", << >>)
    ELSE IF pr.kind = "MongoDB" THEN [pr EXCEPT !.pc = "m_get"]
    ELSE IF pr.kind \in {"Cassandra", "CouchDB"} THEN [pr EXCEPT !.pc = "set_init"]
    ELSE Done(pr, BadRequest, FALSE, "", << >>)
StartSetServiceInit(p, type, reqok) ==
    /\ p \in Clients
    /\ proc[p].pc = "idle"
    /\ proc' = [proc EXCEPT ![p] =
          SetServiceInitDispatch([IdleProc EXCEPT !.op = "setinit", !.kind = type],
                                 reqok)]
    /\ UNCHANGED <<dbVars, platformVars, initTasks>>

\* A setRedisInit that does not compare the request's cluster and region.
SetRedisInitDispatchNoCheck(pr, reqok) ==
    IF Len(pr.opts.nodeIds) = 0 THEN Done(pr, "Panic", FALSE, "", << >>)
    ELSE [pr EXCEPT !.pc = "r_get"]

\* setRedisInit, lines 857-871: decode, the cluster/region check, and the
\* log line that reads req.NodeIds[0]: with no NodeIds the handler panics
\* before it produces a response.
SetRedisInitDispatch(pr, reqok) ==
    IF ~reqok THEN Done(pr, BadRequest, FALSE, "", << >>)
    ELSE IF Len(pr.opts.nodeIds) = 0 THEN Done(pr, "Panic", FALSE, "", << >>)
    ELSE [pr EXCEPT !.pc = "r_get"]
StartSetRedisInit(p, nodeIds, reqok) ==
    /\ p \in Clients
    /\ proc[p].pc = "idle"
    /\ proc' = [proc EXCEPT ![p] =
          SetRedisInitDispatch(
              [IdleProc EXCEPT !.op = "redisinit", !.kind = "Redis",
                               !.opts = [NoOpts EXCEPT !.nodeIds = nodeIds]],
              reqok)]
    /\ UNCHANGED <<dbVars, platformVars, initTasks>>

\* setMongoDBInit lines 768-780 and setRedisInit lines 873-885: GetService
\* and GetServiceAttr (attr.Replicas is what the restart needs).
MutatorGetService(p) ==
    /\ proc[p].pc \in {"m_get", "r_get"}
    /\ LET u == GetService(SvcName)
       IN  proc' = [proc EXCEPT ![p] =
              IF u = NoUUID \/ ~HasAttr(u)
              THEN Done(proc[p], LookupError(u), FALSE, "", << >>)
              ELSE [proc[p] EXCEPT !.uuid = u, !.replicas = attrs[u].replicas,
                       !.pc = IF proc[p].pc = "m_get" THEN "m_list" ELSE "r_list"]]
    /\ UNCHANGED <<dbVars, platformVars, initTasks>>

\* setMongoDBInit lines 782-787 and setRedisInit lines 887-892:
\* ListServiceMembers.
MutatorListMembers(p) ==
    /\ proc[p].pc \in {"m_list", "r_list"}
    /\ proc' = [proc EXCEPT ![p].mems = ListServiceMembers(proc[p].uuid),
                            ![p].i = 1,
                            ![p].pc = IF proc[p].pc = "m_list" THEN "m_msg1" ELSE "r_msg1"]
    /\ UNCHANGED <<dbVars, platformVars, initTasks>>

\* A mutator that restarts the containers before it updates the members.
MutatorAfterMsgRestartFirst(pc) ==
    CASE pc = "m_msg1" -> "restart"
      [] pc = "m_msg2" -> "restart"
      [] pc = "r_msg1" -> "restart"
      [] pc = "r_msg2" -> "restart"

\* A mutator that sets the service initialized without restarting the
\* containers.
MutatorAfterMsgNoRestart(pc) ==
    CASE pc = "m_msg1" -> "m_getcfg"
      [] pc = "m_msg2" -> "set_init"
      [] pc = "r_msg1" -> "r_cluster"
      [] pc = "r_msg2" -> "set_init"

\* The status message a mutator publishes at each of its two points.
MutatorMsg(pc) ==
    CASE pc = "m_msg1" -> MsgMongoAuth
      [] pc = "m_msg2" -> MsgMongoRestart
      [] pc = "r_msg1" -> MsgRedisMap
      [] pc = "r_msg2" -> MsgRedisRestart
MutatorAfterMsg(pc) ==
    CASE pc = "m_msg1" -> "m_getcfg"
      [] pc = "m_msg2" -> "restart"
      [] pc = "r_msg1" -> "r_cluster"
      [] pc = "r_msg2" -> "restart"

\* s.catalogSvcInit.UpdateTaskStatusMsg(service.ServiceUUID, statusMsg)
MutatorUpdateStatusMsg(p) ==
    /\ proc[p].pc \in {"m_msg1", "m_msg2", "r_msg1", "r_msg2"}
    /\ initTasks' = UpdateTaskStatusMsg(proc[p].uuid, MutatorMsg(proc[p].pc))
    /\ Goto(p, MutatorAfterMsg(proc[p].pc))
    /\ UNCHANGED <<dbVars, platformVars>>

\* setMongoDBInit lines 796-814 with enableMongoDBAuth: for the next member,
\* the mongod.conf slot; its file is fetched, and unless auth is already
\* enabled the content with auth enabled goes to updateMemberConfig.
MongoMemberConfig(p) ==
    /\ At(p, "setinit", "m_getcfg")
    /\ LET pr == proc[p]
           member == pr.mems[pr.i]
           j == FirstSlot({k \in DOMAIN member.configs : IsMongoDBConfFile(member.configs[k].fileName)})
           fid == member.configs[j].fileID
           cfgfile == GetConfigFile(pr.uuid, fid)
       IN  proc' = [proc EXCEPT ![p] =
              IF pr.i > Len(pr.mems) THEN [pr EXCEPT !.pc = "m_msg2", !.i = 0]
              ELSE IF j = 0 THEN [pr EXCEPT !.i = pr.i + 1]
              ELSE IF ~HasConfigFile(pr.uuid, fid)
              THEN Done(pr, Internal, FALSE, "", << >>)
              ELSE IF IsAuthEnabled(cfgfile.content) THEN [pr EXCEPT !.i = pr.i + 1]
              ELSE CallUpdateMemberConfig(pr, member, j, cfgfile,
                      EnableMongoDBAuth(cfgfile.content), "m_getcfg")]
    /\ UNCHANGED <<dbVars, platformVars, initTasks>>

\* containersvcIns.RestartService(ctx, cluster, serviceName, attr.Replicas)
MutatorRestart(p) ==
    /\ proc[p].pc = "restart"
    /\ Goto(p, "set_init")
    /\ UNCHANGED <<dbVars, platformVars, initTasks>>

\* ------------------------------------------------------------ setRedisInit

\* The slot createRedisClusterFile appends for the cluster.info file.
ClusterInfoFile(u, member, cfg) ==
    CreateInitialConfigFile(u, GenMemberConfigFileID(member.name, cfg.name, 0),
                            cfg.name, cfg.content)
WithClusterInfoSlot(member, cfgfile) ==
    UpdateServiceMemberConfigs(member,
        Append(member.configs,
               [fileName |-> cfgfile.name, fileID |-> cfgfile.id,
                fileMD5 |-> cfgfile.md5]))

\* A createRedisClusterFile that accepts whatever cluster.info slot the
\* member has.
RedisClusterFileNoCheck(p) ==
    /\ At(p, "redisinit", "r_cluster")
    /\ LET pr == proc[p]
           member == pr.mems[pr.i]
           j == FirstSlot({k \in DOMAIN member.configs : IsClusterInfoFile(member.configs[k].fileName)})
           initcfgfile == ClusterInfoFile(pr.uuid, member, CreateClusterInfoFile(pr.opts.nodeIds))
       IN  IF pr.i > Len(pr.mems)
           THEN /\ proc' = [proc EXCEPT ![p].pc = "r_msg2", ![p].i = 0]
                /\ UNCHANGED files
           ELSE IF j # 0
           THEN /\ proc' = [proc EXCEPT ![p].member = member, ![p].pc = "r_getcfg"]
                /\ UNCHANGED files
           ELSE IF CreateConfigFileOK(initcfgfile)
           THEN /\ files' = CreateConfigFile(initcfgfile)
                /\ proc' = [proc EXCEPT ![p].member = member,
                                        ![p].nf = initcfgfile,
                                        ![p].pc = "r_ccas"]
           ELSE /\ Finish(p, ConfigMismatch)
                /\ UNCHANGED files
    /\ UNCHANGED <<services, uuidCount, attrs, members, platformVars, initTasks>>

\* A createRedisClusterFile that does not look for the member's
\* cluster.info slot.
RedisClusterFileNoLookup(p) ==
    /\ At(p, "redisinit", "r_cluster")
    /\ LET pr == proc[p]
           member == pr.mems[pr.i]
           initcfgfile == ClusterInfoFile(pr.uuid, member, CreateClusterInfoFile(pr.opts.nodeIds))
       IN  IF pr.i > Len(pr.mems)
           THEN /\ proc' = [proc EXCEPT ![p].pc = "r_msg2", ![p].i = 0]
                /\ UNCHANGED files
           ELSE IF CreateConfigFileOK(initcfgfile)
           THEN /\ files' = CreateConfigFile(initcfgfile)
                /\ proc' = [proc EXCEPT ![p].member = member,
                                        ![p].nf = initcfgfile,
                                        ![p].pc = "r_ccas"]
           ELSE /\ Finish(p, ConfigMismatch)
                /\ UNCHANGED files
    /\ UNCHANGED <<services, uuidCount, attrs, members, platformVars, initTasks>>

\* createRedisClusterFile, lines 954-981: a member that has the cluster.info
\* slot is checked against the new content's MD5; otherwise the file is
\* created at version 0.
RedisClusterFile(p) ==
    /\ At(p, "redisinit", "r_cluster")
    /\ LET pr == proc[p]
           member == pr.mems[pr.i]
           cfg == CreateClusterInfoFile(pr.opts.nodeIds)
           j == FirstSlot({k \in DOMAIN member.configs : IsClusterInfoFile(member.configs[k].fileName)})
           initcfgfile == ClusterInfoFile(pr.uuid, member, cfg)
       IN  IF pr.i > Len(pr.mems)
           THEN /\ proc' = [proc EXCEPT ![p].pc = "r_msg2", ![p].i = 0]
                /\ UNCHANGED files
           ELSE IF j # 0
           THEN /\ proc' = [proc EXCEPT ![p] =
                      IF member.configs[j].fileMD5 # GenMD5(cfg.content)
                      THEN Done(pr, ConfigMismatch, FALSE, "", << >>)
                      ELSE [pr EXCEPT !.member = member, !.pc = "r_getcfg"]]
                /\ UNCHANGED files
           ELSE IF CreateConfigFileOK(initcfgfile)
           THEN /\ files' = CreateConfigFile(initcfgfile)
                /\ proc' = [proc EXCEPT ![p].member = member,
                                        ![p].nf = initcfgfile,
                                        ![p].pc = "r_ccas"]
           ELSE /\ Finish(p, ConfigMismatch)
                /\ UNCHANGED files
    /\ UNCHANGED <<services, uuidCount, attrs, members, platformVars, initTasks>>

\* createRedisClusterFile, lines 983-997: the member with the new slot
\* replaces the stored member, conditionally.
RedisClusterCAS(p) ==
    /\ At(p, "redisinit", "r_ccas")
    /\ LET pr == proc[p]
           newMember == WithClusterInfoSlot(pr.member, pr.nf)
       IN  IF CanUpdateServiceMember(pr.uuid, pr.member)
           THEN /\ members' = UpdateServiceMember(pr.uuid, pr.member, newMember)
                /\ proc' = [proc EXCEPT ![p].member = newMember,
                                        ![p].nf = NoFile, ![p].pc = "r_getcfg"]
           ELSE /\ Finish(p, Internal)
                /\ UNCHANGED members
    /\ UNCHANGED <<services, uuidCount, attrs, files, platformVars, initTasks>>

\* A new content with auth enabled and the announce ip left alone.
RedisNewContentAuthOnly(content, staticIP) ==
    IF NeedToEnableAuth(content) THEN EnableRedisAuth(content) ELSE content

\* updateRedisConfigs, lines 1019-1027: the new content of redis.conf.
RedisNewContent(content, staticIP) ==
    LET c1 == IF NeedToEnableAuth(content) THEN EnableRedisAuth(content) ELSE content
    IN  IF NeedToSetClusterAnnounceIP(content)
        THEN SetClusterAnnounceIP(c1, staticIP) ELSE c1

\* setRedisInit lines 912-928 with updateRedisConfigs: the redis.conf slot
\* of the member; its file is fetched, and unless auth and the announce ip
\* are both set the new content goes to updateMemberConfig.
RedisMemberConfig(p) ==
    /\ At(p, "redisinit", "r_getcfg")
    /\ LET pr == proc[p]
           member == pr.member
           j == FirstSlot({k \in DOMAIN member.configs : IsRedisConfFile(member.configs[k].fileName)})
           fid == member.configs[j].fileID
           cfgfile == GetConfigFile(pr.uuid, fid)
           next == [pr EXCEPT !.i = pr.i + 1, !.member = NoMember, !.pc = "r_cluster"]
       IN  proc' = [proc EXCEPT ![p] =
              IF j = 0 THEN next
              ELSE IF ~HasConfigFile(pr.uuid, fid)
              THEN Done(pr, Internal, FALSE, "", << >>)
              ELSE IF ~NeedToEnableAuth(cfgfile.content)
                      /\ ~NeedToSetClusterAnnounceIP(cfgfile.content)
              THEN next
              ELSE CallUpdateMemberConfig(pr, member, j, cfgfile,
                      RedisNewContent(cfgfile.content, member.ip), "r_cluster")]
    /\ UNCHANGED <<dbVars, platformVars, initTasks>>

\* -------------------------------------------------------- CheckServiceInit

\* getCatalogServiceOp, lines 65-77: decode and the cluster/region check.
StartCheckServiceInit(p, type, reqok) ==
    /\ p \in Clients \cup Pollers
    /\ proc[p].pc = "idle"
    /\ LET pr == [IdleProc EXCEPT !.op = "check", !.kind = type]
       IN  proc' = [proc EXCEPT ![p] =
              IF ~reqok THEN Done(pr, BadRequest, FALSE, "", << >>)
              ELSE [pr EXCEPT !.pc = "k_has"]]
    /\ UNCHANGED <<dbVars, platformVars, initTasks>>

\* The response of a live task without the task's status message.
CheckHasTaskNoMsg(p) ==
    /\ At(p, "check", "k_has")
    /\ LET pr == proc[p]
           u == GetService(SvcName)
       IN  proc' = [proc EXCEPT ![p] =
              IF u = NoUUID THEN Done(pr, NotFound, FALSE, "", << >>)
              ELSE IF hasInitTask(u)
              THEN Done(pr, OK, FALSE, "", << >>)
              ELSE [pr EXCEPT !.uuid = u, !.pc = "k_attr"]]
    /\ UNCHANGED <<dbVars, platformVars, initTasks>>

\* A CheckServiceInit that does not look for a live task.
CheckHasTaskIgnoresTask(p) ==
    /\ At(p, "check", "k_has")
    /\ LET pr == proc[p]
           u == GetService(SvcName)
       IN  proc' = [proc EXCEPT ![p] =
              IF u = NoUUID THEN Done(pr, NotFound, FALSE, "", << >>)
              ELSE [pr EXCEPT !.uuid = u, !.pc = "k_attr"]]
    /\ UNCHANGED <<dbVars, platformVars, initTasks>>

\* getCatalogServiceOp, lines 79-92 and 167-181: GetService, then
\* hasInitTask; with a live task the response is {false, statusMsg}.
CheckHasTask(p) ==
    /\ At(p, "check", "k_has")
    /\ LET pr == proc[p]
           u == GetService(SvcName)
       IN  proc' = [proc EXCEPT ![p] =
              IF u = NoUUID THEN Done(pr, NotFound, FALSE, "", << >>)
              ELSE IF hasInitTask(u)
              THEN Done(pr, OK, FALSE, TaskStatusMsg(u), << >>)
              ELSE [pr EXCEPT !.uuid = u, !.pc = "k_attr"]]
    /\ UNCHANGED <<dbVars, platformVars, initTasks>>

\* The switch without its MongoDB case.
CheckDispatchNoMongoDB(pr, status) ==
    IF status = Active THEN Done(pr, OK, TRUE, "", << >>)
    ELSE IF status = Initializing
    THEN IF pr.kind \in {"Cassandra", "Redis", "CouchDB"}
         THEN [pr EXCEPT !.pc = "k_add"]
         ELSE IF pr.kind \in {"PostgreSQL", "ZooKeeper", "Kafka"}
         THEN [pr EXCEPT !.pc = "set_init"]
         ELSE Done(pr, BadRequest, FALSE, "", << >>)
    ELSE Done(pr, BadRequest, FALSE, "", << >>)

\* The switch with initialized = true for ZooKeeper but without the call of
\* setServiceInitialized.
CheckDispatchNoFlip(pr, status) ==
    IF status = Active THEN Done(pr, OK, TRUE, "", << >>)
    ELSE IF status = Initializing
    THEN IF pr.kind \in {"MongoDB", "Cassandra", "Redis", "CouchDB"}
         THEN [pr EXCEPT !.pc = "k_add"]
         ELSE IF pr.kind \in {"PostgreSQL", "Kafka"}
         THEN [pr EXCEPT !.pc = "set_init"]
         ELSE IF pr.kind = "ZooKeeper"
         THEN Done(pr, OK, TRUE, "", << >>)
         ELSE Done(pr, BadRequest, FALSE, "", << >>)
    ELSE Done(pr, BadRequest, FALSE, "", << >>)

\* The switch calling setServiceInitialized again for an ACTIVE service.
CheckDispatchActiveWrites(pr, status) ==
    IF status = Active THEN [pr EXCEPT !.pc = "set_init"]
    ELSE IF status = Initializing
    THEN IF pr.kind \in {"MongoDB", "Cassandra", "Redis", "CouchDB"}
         THEN [pr EXCEPT !.pc = "k_add"]
         ELSE IF pr.kind \in {"PostgreSQL", "ZooKeeper", "Kafka"}
         THEN [pr EXCEPT !.pc = "set_init"]
         ELSE Done(pr, BadRequest, FALSE, "", << >>)
    ELSE Done(pr, BadRequest, FALSE, "", << >>)

\* The switch treating CREATING like INITIALIZING.
CheckDispatchCreating(pr, status) ==
    IF status = Active THEN Done(pr, OK, TRUE, "", << >>)
    ELSE IF status \in {Initializing, Creating}
    THEN IF pr.kind \in {"MongoDB", "Cassandra", "Redis", "CouchDB"}
         THEN [pr EXCEPT !.pc = "k_add"]
         ELSE IF pr.kind \in {"PostgreSQL", "ZooKeeper", "Kafka"}
         THEN [pr EXCEPT !.pc = "set_init"]
         ELSE Done(pr, BadRequest, FALSE, "", << >>)
    ELSE Done(pr, BadRequest, FALSE, "", << >>)

\* getCatalogServiceOp, lines 104-164: the switch on attr.ServiceStatus and,
\* for INITIALIZING, on req.ServiceType.
CheckDispatch(pr, status) ==
    IF status = Active THEN Done(pr, OK, TRUE, "", << >>)
    ELSE IF status = Initializing
    THEN IF pr.kind \in {"MongoDB", "Cassandra", "Redis", "CouchDB"}
         THEN [pr EXCEPT !.pc = "k_add"]
         ELSE IF pr.kind \in {"PostgreSQL", "ZooKeeper", "Kafka"}
         THEN [pr EXCEPT !.pc = "set_init"]
         ELSE Done(pr, BadRequest, FALSE, "", << >>)
    ELSE Done(pr, BadRequest, FALSE, "", << >>)

\* A CheckServiceInit that re-submits the init task whatever status it reads.
CheckAttrResubmitsAlways(p) ==
    /\ At(p, "check", "k_attr")
    /\ proc' = [proc EXCEPT ![p] =
          IF ~HasAttr(proc[p].uuid) THEN Done(proc[p], Internal, FALSE, "", << >>)
          ELSE IF proc[p].kind \in InitKinds THEN [proc[p] EXCEPT !.pc = "k_add"]
          ELSE CheckDispatch(proc[p], StatusOf(proc[p].uuid))]
    /\ UNCHANGED <<dbVars, platformVars, initTasks>>

\* getCatalogServiceOp, lines 96-102: GetServiceAttr, then the switch.
CheckAttr(p) ==
    /\ At(p, "check", "k_attr")
    /\ proc' = [proc EXCEPT ![p] =
          IF ~HasAttr(proc[p].uuid) THEN Done(proc[p], Internal, FALSE, "", << >>)
          ELSE CheckDispatch(proc[p], StatusOf(proc[p].uuid))]
    /\ UNCHANGED <<dbVars, platformVars, initTasks>>

\* The response {false, ""} without the registration.
CheckAddInitTaskSkipped(p) ==
    /\ At(p, "check", "k_add")
    /\ proc' = [proc EXCEPT ![p] = Done(proc[p], OK, FALSE, "", << >>)]
    /\ UNCHANGED <<dbVars, platformVars, initTasks>>

\* A registration that bypasses the runner's guard.
CheckAddInitTaskUnguarded(p) ==
    /\ At(p, "check", "k_add")
    /\ initTasks' = initTasks \cup {NewTask(proc[p].uuid, proc[p].kind)}
    /\ proc' = [proc EXCEPT ![p] = Done(proc[p], OK, FALSE, "", << >>)]
    /\ UNCHANGED <<dbVars, platformVars>>

\* getCatalogServiceOp, lines 118, 129, 148, 155: add<Catalog>InitTask, then
\* the response {false, ""}.
CheckAddInitTask(p) ==
    /\ At(p, "check", "k_add")
    /\ initTasks' = addInitTask(NewTask(proc[p].uuid, proc[p].kind))
    /\ proc' = [proc EXCEPT ![p] = Done(proc[p], OK, FALSE, "", << >>)]
    /\ UNCHANGED <<dbVars, platformVars>>
\* ------------------------------------- the other handlers of server.go

\* The handlers getOp, delOp and putOp dispatch to besides the creates and
\* setServiceInitialized, by the name of their function.
ServerOps ==
    {"getServiceAttr", "deleteService", "listServices", "listVolumes",
     "getServiceStatus", "runTask", "getTaskStatus", "deleteTask"}

\* Each of these handlers decodes the body and compares the request's
\* cluster and region with the server's (getServiceAttr and deleteService
\* also the body's service name with the URL's, getTaskStatus and deleteTask
\* also that the task id / type is there) before it calls anything.
StartServerOp(p, op, reqok) ==
    /\ p \in Clients
    /\ proc[p].pc = "idle"
    /\ LET pr == [IdleProc EXCEPT !.op = op]
       IN  proc' = [proc EXCEPT ![p] =
              IF ~reqok THEN Done(pr, BadRequest, FALSE, "", << >>)
              ELSE [pr EXCEPT !.pc = "s_call"]]
    /\ UNCHANGED <<dbVars, platformVars, initTasks>>

\* The result of the handler's calls: getServiceAttr and listServices read
\* the Service and its ServiceAttr, listVolumes, runTask and deleteService
\* need the Service record, getServiceStatus asks the container platform
\* about the service, getTaskStatus and deleteTask about a task.
ServerOpCode(op) ==
    LET u == GetService(SvcName)
    IN  IF op \in {"getServiceAttr", "listVolumes", "runTask", "deleteService"}
           /\ u = NoUUID
        THEN NotFound
        ELSE IF op \in {"getServiceAttr", "listServices"} /\ u # NoUUID /\ ~HasAttr(u)
        THEN Internal
        ELSE IF op = "getServiceStatus" /\ SvcName \notin containers
        THEN Internal
        ELSE OK

\* The calls of the handler: only deleteService changes anything, it
\* removes the Service record (s.dbIns.DeleteService).
ServerOpCall(p) ==
    /\ proc[p].op \in ServerOps
    /\ proc[p].pc = "s_call"
    /\ services' =
          IF proc[p].op = "deleteService" /\ ServerOpCode(proc[p].op) = OK
          THEN [services EXCEPT ![SvcName] = NoUUID]
          ELSE services
    /\ Finish(p, ServerOpCode(proc[p].op))
    /\ UNCHANGED <<uuidCount, attrs, members, files, platformVars, initTasks>>

\* ------------------------------------------------------- init task runs

\* The node ids the Redis init job reads from the nodes it has set up.
JobNodeIds == NodeIdsA

\* The request the container job of an init task sends back to the manage
\* server: SetServiceInit for MongoDB, Cassandra and CouchDB, SetRedisInit
\* with the node ids for Redis.
JobRequest(task) ==
    IF task.type = "Redis"
    THEN SetRedisInitDispatch(
            [IdleProc EXCEPT !.op = "redisinit", !.kind = "Redis",
                             !.opts = [NoOpts EXCEPT !.nodeIds = JobNodeIds]], TRUE)
    ELSE SetServiceInitDispatch(
            [IdleProc EXCEPT !.op = "setinit", !.kind = task.type], TRUE)

\* The runner executes a registered task, concurrently with the requests.
TaskRun(t) ==
    /\ t \in initTasks
    /\ t.st = "new"
    /\ proc[Job].pc = "idle"
    /\ initTasks' = (initTasks \ {t}) \cup {[t EXCEPT !.st = "running"]}
    /\ proc' = [proc EXCEPT ![Job] = JobRequest(t)]
    /\ UNCHANGED <<dbVars, platformVars>>

\* A runner that forgets a task when its run ends, however it ended.
TaskEndForgets ==
    /\ proc[Job].pc = "done"
    /\ initTasks' = {t \in initTasks : t.st # "running"}
    /\ proc' = [proc EXCEPT ![Job] = IdleProc]
    /\ UNCHANGED <<dbVars, platformVars>>

\* The end of a task's run: a task that made the service initialized leaves
\* the runner; a failed task stays, with its last status message.
TaskEnd ==
    /\ proc[Job].pc = "done"
    /\ initTasks' =
          IF proc[Job].resp.code = OK
          THEN {t \in initTasks : t.st # "running"}
          ELSE {IF t.st = "running" THEN [t EXCEPT !.st = "failed"] ELSE t :
                    t \in initTasks}
    /\ proc' = [proc EXCEPT ![Job] = IdleProc]
    /\ UNCHANGED <<dbVars, platformVars>>

\* ------------------------------------------------------------ environment

\* A return whose cancellation stops the init tasks.
ReturnCancelsTasks(p) ==
    /\ p \in Clients \cup Pollers
    /\ proc[p].pc = "done"
    /\ proc' = [proc EXCEPT ![p] = IdleProc]
    /\ initTasks' = {}
    /\ UNCHANGED <<dbVars, platformVars>>

\* ServeHTTP returns: the response is with the client, and the deferred
\* cancel() of the request's context fires.  The init tasks run under a
\* context of their own.

Return(p) ==
    /\ p \in Clients \cup Pollers
    /\ proc[p].pc = "done"
    /\ proc' = [proc EXCEPT ![p] = IdleProc]
    /\ UNCHANGED <<dbVars, platformVars, initTasks>>

\* The steps at which a call to the DB, the DNS or the container platform
\* (or, for Redis, the init task generator) can return an error.
DoesIO(pr) ==
    \/ pr.pc \in {"cs_service", "cs_attr", "cs_member", "cc_exist", "g_exist",
                  "cc_create", "g_create", "cc_flip", "set_init", "u_create",
                  "u_cas", "c_list", "m_get", "r_get", "m_list", "r_list",
                  "restart", "r_ccas", "r_getcfg", "k_has", "k_attr"}
    \/ pr.pc = "cs_files" /\ pr.i <= pr.opts.replicas
    \/ pr.pc \in {"c_getcfg", "m_getcfg", "r_cluster"} /\ pr.i <= Len(pr.mems)
    \/ pr.pc \in {"k_add", "add_task"} /\ pr.kind = "Redis"

\* An external call of the handler fails: the handler returns the error.
Fault(p) ==
    /\ DoesIO(proc[p])
    /\ Finish(p, Internal)
    /\ UNCHANGED <<dbVars, platformVars, initTasks>>

\* The manage server crashes and restarts: every handler and every init
\* task is gone, the DB and the container platform keep their state.
Crash ==
    /\ initTasks # {} \/ \E p \in Procs : proc[p].pc # "idle"
    /\ initTasks' = {}
    /\ proc' = [p \in Procs |-> IdleProc]
    /\ UNCHANGED <<dbVars, platformVars>>

\* The delete flow marks the service DELETING before it removes anything.
MarkDeleting ==
    /\ HasAttr(GetService(SvcName))
    /\ StatusOf(GetService(SvcName)) # Deleting
    /\ attrs' = [attrs EXCEPT ![GetService(SvcName)].status = Deleting]
    /\ UNCHANGED <<services, uuidCount, members, files, platformVars, initTasks, proc>>

\* ---------------------------------------------------------- specification

\* One step of a handler of catalogservice.go.
CatalogStep(p) ==
    \/ CreateServiceRecord(p)
    \/ CreateServiceAttr(p)
    \/ CreateMemberFiles(p)
    \/ CreateMemberRecord(p)
    \/ IsServiceExist(p)
    \/ CreateContainerService(p)
    \/ FlipInitializing(p)
    \/ CreateAddInitTask(p)
    \/ SetInitializedStep(p)
    \/ UpdateCreateFile(p)
    \/ UpdateCASMember(p)
    \/ \E deleted \in BOOLEAN : UpdateDeleteOld(p, deleted)
    \/ ConsulListMembers(p)
    \/ ConsulMemberConfig(p)
    \/ MutatorGetService(p)
    \/ MutatorListMembers(p)
    \/ MutatorUpdateStatusMsg(p)
    \/ MongoMemberConfig(p)
    \/ MutatorRestart(p)
    \/ RedisClusterFile(p)
    \/ RedisClusterCAS(p)
    \/ RedisMemberConfig(p)
    \/ CheckHasTask(p)
    \/ CheckAttr(p)
    \/ CheckAddInitTask(p)

\* One step of the handler a process runs.
Step(p) ==
    \/ CatalogStep(p)
    \/ GenericCreateDone(p)

\* The catalog kind the stored service was created as.
StoredKind ==
    IF HasAttr(GetService(SvcName)) THEN attrs[GetService(SvcName)].kind ELSE "none"
\* Clients name the service's own catalog kind as the request's serviceType
\* once the service is stored (the catalog client libraries do).
Consistent(type) == StoredKind \in {"none", type}

\* A client polls CheckServiceInit of the service it knows to be stored.
Poll(p) ==
    \E type \in ReqTypes, reqok \in BOOLEAN :
       StoredKind = type /\ StartCheckServiceInit(p, type, reqok)

\* A client sends a request.

Start(p) ==
    \/ \E kind \in Kinds, reqok \in BOOLEAN :
          \E opts \in CreateOpts(kind) :
             StoredKind \in {"none", kind, "Generic"} /\ StartCreate(p, kind, opts, reqok)
    \/ \E reqok \in BOOLEAN : StartGenericCreate(p, reqok)
    \/ \E reqok \in BOOLEAN : StartSetServiceInitialized(p, reqok)
    \/ \E type \in ReqTypes, reqok \in BOOLEAN :
          Consistent(type) /\ StartCheckServiceInit(p, type, reqok)

\* A client calls the handlers the init containers call.

Mutate(p) ==
    \/ \E type \in ReqTypes, reqok \in BOOLEAN :
          Consistent(type) /\ StartSetServiceInit(p, type, reqok)
    \/ \E nodeIds \in NodeIdChoices \cup {<< >>}, reqok \in BOOLEAN :
          Consistent("Redis") /\ StartSetRedisInit(p, nodeIds, reqok)

Env ==
    \/ \E p \in Procs : Step(p)
    \/ \E p \in Procs : Fault(p)
    \/ \E p \in Clients \cup Pollers : Return(p)
    \/ \E t \in initTasks : TaskRun(t)
    \/ TaskEnd
    \/ Crash
    \/ MarkDeleting

Next ==
    \/ \E p \in Clients : Start(p)
    \/ \E p \in Clients : Mutate(p)
    \/ Env

PollNext ==
    \/ \E p \in Clients : Start(p)
    \/ \E p \in Pollers : Poll(p)
    \/ Env

Spec == Init /\ [][Next]_vars
PollSpec == Init /\ [][PollNext]_vars

\* ------------------------------------------- resuming after a restart

\* The only client request before the restart: one valid catalog create.
LiveCreate(p) ==
    /\ services[SvcName] = NoUUID
    /\ \E kind \in Kinds : \E opts \in CreateOpts(kind) : StartCreate(p, kind, opts, TRUE)

\* The manage server restarts once, when the create has left the service
\* INITIALIZING: before its last step, or later while the init task runs.
LiveCrash ==
    /\ \E p \in Clients :
          proc[p].op = "create" /\ proc[p].pc \in {"add_task", "set_init", "done"}
    /\ StatusOf(GetService(SvcName)) = Initializing
    /\ Crash

\* After the restart the only client requests are valid CheckServiceInit polls.
LivePoll(p) ==
    /\ services[SvcName] # NoUUID
    /\ \A c \in Clients : proc[c].pc = "idle"
    /\ \E type \in ReqTypes : StoredKind = type /\ StartCheckServiceInit(p, type, TRUE)

LiveNext ==
    \/ \E p \in Clients : LiveCreate(p)
    \/ \E p \in Procs : CatalogStep(p)
    \/ LiveCrash
    \/ \E p \in Pollers : LivePoll(p)
    \/ \E p \in Pollers : Return(p)
    \/ \E t \in initTasks : TaskRun(t)
    \/ TaskEnd

\* The polling client keeps polling, and the runner's goroutine and the init
\* container keep running: every handler call returns.
PollerMove == \E p \in Pollers : LivePoll(p) \/ CatalogStep(p) \/ Return(p)
JobMove == CatalogStep(Job) \/ (\E t \in initTasks : TaskRun(t)) \/ TaskEnd

LiveSpec ==
    Init /\ [][LiveNext]_vars /\ WF_vars(PollerMove) /\ WF_vars(JobMove)

\* ------------------------------------------ an undisturbed initialization

\* A client polls CheckServiceInit of the stored service with a valid request.
RunPoll(p) ==
    /\ services[SvcName] # NoUUID
    /\ \E type \in ReqTypes : StoredKind = type /\ StartCheckServiceInit(p, type, TRUE)

\* One valid catalog create and the CheckServiceInit polls of two clients:
\* no call fails, the manage server does not restart, nothing is deleted and
\* no create is retried.
RunNext ==
    \/ \E p \in Clients : LiveCreate(p)
    \/ \E p \in Procs : CatalogStep(p)
    \/ \E p \in Clients \cup Pollers : RunPoll(p)
    \/ \E p \in Clients \cup Pollers : Return(p)
    \/ \E t \in initTasks : TaskRun(t)
    \/ TaskEnd

RunSpec == Init /\ [][RunNext]_vars

\* ------------------------------------------------- concurrent init calls

\* A client sends a valid SetServiceInit or SetRedisInit for the stored
\* service, as the init containers do.
RaceMutate(p) ==
    /\ services[SvcName] # NoUUID
    /\ \/ \E type \in ReqTypes : StoredKind = type /\ StartSetServiceInit(p, type, TRUE)
       \/ \E nodeIds \in NodeIdChoices :
             StoredKind = "Redis" /\ StartSetRedisInit(p, nodeIds, TRUE)

\* One valid create, after which the client polls and repeats the init
\* job's calls, so that its mutator runs are concurrent with the job's;
\* the manage server restarts at most once, while the service is
\* INITIALIZING.  No call fails and no create is retried.
RaceNext ==
    \/ \E p \in Clients : LiveCreate(p)
    \/ \E p \in Clients : RaceMutate(p)
    \/ \E p \in Clients : RunPoll(p)
    \/ \E p \in Procs : CatalogStep(p)
    \/ \E p \in Clients : Return(p)
    \/ \E t \in initTasks : TaskRun(t)
    \/ TaskEnd
    \/ LiveCrash

RaceSpec == Init /\ [][RaceNext]_vars

\* ------------------------------------------ requests of a foreign cluster

\* A client sends a handler a request that names another cluster or region
\* (for the generic create, getServiceAttr and deleteService also: another
\* service name than the URL's).
ForeignRequest(p) ==
    \/ \E kind \in Kinds : \E opts \in CreateOpts(kind) : StartCreate(p, kind, opts, FALSE)
    \/ StartGenericCreate(p, FALSE)
    \/ StartSetServiceInitialized(p, FALSE)
    \/ \E type \in ReqTypes : StartCheckServiceInit(p, type, FALSE)
    \/ \E type \in ReqTypes : StartSetServiceInit(p, type, FALSE)
    \/ \E nodeIds \in NodeIdChoices \cup {<< >>} : StartSetRedisInit(p, nodeIds, FALSE)
    \/ \E op \in ServerOps : StartServerOp(p, op, FALSE)

\* One valid create, valid polls and valid requests to the other handlers
\* of server.go (a deleted service is not created again) produce the states
\* in which every handler receives a foreign request.
GateNext ==
    \/ \E p \in Clients : uuidCount = 0 /\ LiveCreate(p)
    \/ \E p \in Clients \cup Pollers : RunPoll(p)
    \/ \E p \in Clients, op \in ServerOps : StartServerOp(p, op, TRUE)
    \/ \E p \in Clients : ForeignRequest(p)
    \/ \E p \in Procs : CatalogStep(p)
    \/ \E p \in Clients : ServerOpCall(p)
    \/ \E p \in Clients \cup Pollers : Return(p)
    \/ \E t \in initTasks : TaskRun(t)
    \/ TaskEnd

GateSpec == Init /\ [][GateNext]_vars

\* ----------------------------------------- requests served one at a time

\* A client sends a request while the init job is between two calls.
SeqStart(p) == proc[Job].pc = "idle" /\ (Start(p) \/ Mutate(p))

\* The runner starts a task while no client request is being served.
SeqTaskRun(t) == (\A c \in Clients : proc[c].pc = "idle") /\ TaskRun(t)

\* The requests of one client and the calls of the init job, one handler at
\* a time: calls fail, the manage server restarts, creates are retried and
\* the service is marked DELETING as under Spec, but no two handlers run
\* concurrently.
SeqNext ==
    \/ \E p \in Clients : SeqStart(p)
    \/ \E p \in Procs : Step(p)
    \/ \E p \in Procs : Fault(p)
    \/ \E p \in Clients : Return(p)
    \/ \E t \in initTasks : SeqTaskRun(t)
    \/ TaskEnd
    \/ Crash
    \/ MarkDeleting

SeqSpec == Init /\ [][SeqNext]_vars

\* ------------------------------------------------------------ properties

TheService == GetService(SvcName)

\* C1: under every interleaving of catalog creates and CheckServiceInit
\* calls the runner holds at most one live init task per serviceUUID.
C1_OneTaskPerService ==
    \A u \in {t.uuid : t \in initTasks} : Cardinality(TasksOf(u)) <= 1

\* A handler is at its addInitTask call while a task of the same service,
\* registered by a concurrent handler, is already running.
C1_Witness ==
    \E p \in Procs :
       /\ proc[p].pc \in {"k_add", "add_task"}
       /\ \E t \in TasksOf(proc[p].uuid) : t.st = "running"

\* The status pairs that would be a move backward.
Backward ==
    {<<Initializing, Creating>>, <<Active, Creating>>, <<Active, Initializing>>}

NoDuplicates ==
    \A u \in DOMAIN members :
       /\ \A a, b \in DOMAIN members[u] :
             members[u][a].name = members[u][b].name => a = b
       /\ \A a \in DOMAIN members[u] :
             \A j, k \in DOMAIN members[u][a].configs :
                members[u][a].configs[j].fileName = members[u][a].configs[k].fileName
                   => j = k

\* C3: a repeated create keeps the serviceUUID, creates no duplicate member
\* or config slot, and, once an earlier create has brought the service past
\* CREATING, leaves every member, every config slot and every config file
\* as it found them.
C3_CreateIdempotent ==
    /\ [](uuidCount <= 1 /\ NoDuplicates)
    /\ [][\A p \in Procs :
            (InCreate(p) /\ Step(p) /\ StatusOf(TheService) \in {Initializing, Active})
               => (services' = services /\ members' = members /\ files' = files)]_vars

\* The response body and code of CheckServiceInit.
CheckResp(initialized, msg) ==
    [code |-> OK, initialized |-> initialized, msg |-> msg, ips |-> << >>]

\* After the restart: the service is INITIALIZING, the runner's map is empty
\* and no handler runs.
Stranded ==
    /\ StatusOf(TheService) = Initializing
    /\ initTasks = {}
    /\ \A p \in Procs : proc[p].pc = "idle"

\* A CheckServiceInit poll has returned with the given response.
Polled(resp) ==
    \E p \in Pollers :
       proc[p].op = "check" /\ proc[p].pc = "done" /\ proc[p].resp = resp

\* C4: after a restart that empties the runner while a MongoDB service is
\* INITIALIZING, a CheckServiceInit poll returns {false, ""} with the init
\* task registered again, and a later poll returns initialized = true.
C4_MongoDBResumes ==
    /\ (Stranded /\ StoredKind = "MongoDB")
          ~> (Polled(CheckResp(FALSE, "")) /\ hasInitTask(TheService))
    /\ (Stranded /\ StoredKind = "MongoDB") ~> Polled(CheckResp(TRUE, ""))

\* After the restart of a MongoDB service a poll has returned initialized.
C4_Witness ==
    /\ StoredKind = "MongoDB"
    /\ Polled(CheckResp(TRUE, ""))
    /\ initTasks = {}

\* C5: with a live init task CheckServiceInit answers initialized = false and
\* the task's current status message, registers no task and changes no
\* status, whatever the stored status is.
C5_LiveTaskReported ==
    [][\A p \in Procs :
          (CheckHasTask(p) /\ hasInitTask(TheService))
             => /\ proc'[p].pc = "done"
                /\ proc'[p].resp = CheckResp(FALSE, TaskStatusMsg(TheService))
                /\ initTasks' = initTasks
                /\ attrs' = attrs]_vars

\* A poll has returned the status message of the task that is still live,
\* for a service that is not INITIALIZING any more.
C5_Witness ==
    /\ Polled(CheckResp(FALSE, MsgMongoRestart))
    /\ TaskStatusMsg(TheService) = MsgMongoRestart
    /\ StatusOf(TheService) # Initializing

\* C6: with no live task and the status INITIALIZING, CheckServiceInit of
\* type MongoDB, Cassandra, CouchDB or Redis registers an init task of the
\* service, answers {false, ""} and leaves the status as it is.
C6_InitKindsReRegister ==
    [][\A p \in Procs :
          /\ (CheckAttr(p) /\ HasAttr(proc[p].uuid) /\ proc[p].kind \in InitKinds
                 /\ StatusOf(proc[p].uuid) = Initializing)
                => (proc'[p].pc = "k_add" /\ initTasks' = initTasks /\ attrs' = attrs)
          /\ CheckAddInitTask(p)
                => /\ \E t \in initTasks' : t.uuid = proc[p].uuid
                   /\ proc'[p].pc = "done"
                   /\ proc'[p].resp = CheckResp(FALSE, "")
                   /\ attrs' = attrs]_vars

\* A Redis CheckServiceInit found no task and the status INITIALIZING and is
\* at its addRedisInitTask call, no task being live.
C6_Witness ==
    \E p \in Procs :
       /\ At(p, "check", "k_add")
       /\ proc[p].kind = "Redis"
       /\ ~hasInitTask(proc[p].uuid)
       /\ StatusOf(proc[p].uuid) = Initializing

C8_ActiveReported ==
    [][\A p \in Procs :
          /\ (CheckAttr(p) /\ HasAttr(proc[p].uuid) /\ StatusOf(proc[p].uuid) = Active)
                => /\ proc'[p].pc = "done"
                   /\ proc'[p].resp = CheckResp(TRUE, "")
                   /\ initTasks' = initTasks
                   /\ UNCHANGED <<dbVars, platformVars>>
          /\ CheckHasTask(p) => UNCHANGED <<dbVars, platformVars, initTasks>>]_vars

\* A CheckServiceInit poll of an ACTIVE MongoDB service without a task has
\* answered initialized.
C8_Witness ==
    /\ StoredKind = "MongoDB"
    /\ StatusOf(TheService) = Active
    /\ initTasks = {}
    /\ Polled(CheckResp(TRUE, ""))

\* C9: with no live task and the status CREATING or DELETING, CheckServiceInit
\* fails with BadRequest, registers no task and changes no status.
C9_OtherStatusRejected ==
    [][\A p \in Procs :
          (CheckAttr(p) /\ HasAttr(proc[p].uuid)
             /\ StatusOf(proc[p].uuid) \in {Creating, Deleting})
             => /\ proc'[p].pc = "done"
                /\ proc'[p].resp.code = BadRequest
                /\ ~proc'[p].resp.initialized
                /\ initTasks' = initTasks
                /\ attrs' = attrs]_vars

\* A CheckServiceInit has found no task and is at GetServiceAttr while the
\* service is CREATING.
C9_Witness ==
    \E p \in Procs :
       /\ At(p, "check", "k_attr")
       /\ ~hasInitTask(proc[p].uuid)
       /\ HasAttr(proc[p].uuid)
       /\ StatusOf(proc[p].uuid) = Creating

\* C10: whatever the catalog kind, a service left INITIALIZING with no live
\* task is eventually reported initialized = true to the polling client.
C10_EveryKindResumes ==
    Stranded ~> Polled(CheckResp(TRUE, ""))

\* C11: addInitTask for a service that has a live task leaves the runner as
\* it is: the task, its status message and its run state are unchanged, so
\* no task is there to be executed a second time.
C11_AddInitTaskNoOp ==
    [][\A p \in Procs :
          ((CheckAddInitTask(p) \/ CreateAddInitTask(p)) /\ hasInitTask(proc[p].uuid))
             => initTasks' = initTasks]_vars

\* A handler is at its addInitTask call while the service's task, registered
\* by another handler, has already published a status message.
C11_Witness ==
    \E p \in Procs :
       /\ proc[p].pc \in {"k_add", "add_task"}
       /\ \E t \in TasksOf(proc[p].uuid) : t.msg # ""

\* The cluster.info file createRedisClusterFile is about to create for the
\* member at hand: the member has no cluster.info slot.
CreatesClusterFile(pr) ==
    /\ pr.op = "redisinit" /\ pr.pc = "r_cluster" /\ pr.i <= Len(pr.mems)
    /\ \A k \in DOMAIN pr.mems[pr.i].configs :
          ~IsClusterInfoFile(pr.mems[pr.i].configs[k].fileName)
PendingClusterFile(pr) ==
    ClusterInfoFile(pr.uuid, pr.mems[pr.i], CreateClusterInfoFile(pr.opts.nodeIds))

\* C12: a CreateConfigFile of a fileID that is already stored leaves the
\* store unchanged; with the stored content it succeeds (the handler goes
\* on), with other content it fails with ConfigMismatch.
C12_CreateConfigFileContentAddressed ==
    [][\A p \in Procs :
          /\ (UpdateCreateFile(p) /\ HasConfigFile(proc[p].nf.su, proc[p].nf.id))
                => /\ files' = files
                   /\ IF GetConfigFile(proc[p].nf.su, proc[p].nf.id).md5 = proc[p].nf.md5
                      THEN proc'[p].pc = "u_cas"
                      ELSE /\ proc'[p].pc = "done"
                           /\ proc'[p].resp.code = ConfigMismatch
          /\ (RedisClusterFile(p) /\ CreatesClusterFile(proc[p])
                 /\ HasConfigFile(proc[p].uuid, PendingClusterFile(proc[p]).id))
                => /\ files' = files
                   /\ IF GetConfigFile(proc[p].uuid, PendingClusterFile(proc[p]).id).md5
                            = PendingClusterFile(proc[p]).md5
                      THEN proc'[p].pc = "r_ccas"
                      ELSE /\ proc'[p].pc = "done"
                           /\ proc'[p].resp.code = ConfigMismatch]_vars

\* createRedisClusterFile is about to create a cluster.info file whose fileID
\* is stored with the content of other NodeIds.
C12_Witness ==
    \E p \in Procs :
       /\ CreatesClusterFile(proc[p])
       /\ HasConfigFile(proc[p].uuid, PendingClusterFile(proc[p]).id)
       /\ GetConfigFile(proc[p].uuid, PendingClusterFile(proc[p]).id).md5
             # PendingClusterFile(proc[p]).md5

\* The mutator is at a member whose stored mongod.conf has auth enabled.
MongoAuthDone(pr) ==
    /\ pr.op = "setinit" /\ pr.pc = "m_getcfg" /\ pr.i <= Len(pr.mems)
    /\ \E k \in DOMAIN pr.mems[pr.i].configs :
          /\ pr.mems[pr.i].configs[k].fileName = MongoFileName
          /\ HasConfigFile(pr.uuid, pr.mems[pr.i].configs[k].fileID)
          /\ GetConfigFile(pr.uuid, pr.mems[pr.i].configs[k].fileID).content.auth

\* The mutator is at a member whose stored redis.conf has auth enabled and
\* the cluster-announce-ip set.
RedisConfDone(pr) ==
    /\ pr.op = "redisinit" /\ pr.pc = "r_getcfg"
    /\ \E k \in DOMAIN pr.member.configs :
          /\ pr.member.configs[k].fileName = RedisFileName
          /\ HasConfigFile(pr.uuid, pr.member.configs[k].fileID)
          /\ GetConfigFile(pr.uuid, pr.member.configs[k].fileID).content.auth
          /\ GetConfigFile(pr.uuid, pr.member.configs[k].fileID).content.ip # ""

\* C13: the MongoDB enable-auth step on a member whose mongod.conf has auth
\* enabled, and the Redis config step on a member whose redis.conf has auth
\* and the announce ip, go to the next member without calling
\* updateMemberConfig: no file is created or deleted, no member is updated.
C13_ProbedMutatorsNoOp ==
    [][\A p \in Procs :
          /\ (MongoMemberConfig(p) /\ MongoAuthDone(proc[p]))
                => /\ proc'[p].pc = "m_getcfg"
                   /\ proc'[p].i = proc[p].i + 1
                   /\ UNCHANGED <<files, members>>
          /\ (RedisMemberConfig(p) /\ RedisConfDone(proc[p]))
                => /\ proc'[p].pc = "r_cluster"
                   /\ proc'[p].i = proc[p].i + 1
                   /\ UNCHANGED <<files, members>>]_vars

\* A repeated SetServiceInit is at a member whose mongod.conf got auth
\* enabled by an earlier run.
C13_Witness ==
    \E p \in Clients : MongoAuthDone(proc[p])

\* Every member address of a Consul basic config is a static ip.
AllReplaced(content) ==
    \A k \in DOMAIN content.addrs : content.addrs[k].kind = "ip"

\* C14: the Consul rewrite of a member whose basic config already has every
\* member name replaced by its static ip creates no config file and leaves
\* the member's config slot as it is.
C14_ConsulRewriteNoOp ==
    [][\A p \in Procs :
          (/\ proc[p].op = "create" /\ proc[p].kind = "Consul"
           /\ proc[p].pc \in {"u_create", "u_cas", "u_delete"}
           /\ AllReplaced(proc[p].cf.content)
           /\ Step(p))
             => (files' = files /\ members' = members)]_vars

\* The catalogs whose create sets the service initialized itself.
NoInitKinds == FlipKinds \cup {"ElasticSearch", "Kibana", "Logstash"}
NoInitCreate(pr) ==
    /\ pr.op = "create" /\ pr.pc # "done"
    /\ pr.kind \in NoInitKinds \/ (pr.kind = "Redis" /\ ~pr.opts.cluster)

\* C15: a create of a no-init catalog answers 200 only in the step of
\* setServiceInitialized that leaves the status ACTIVE; a request that fails
\* validation, and a failed call, answer an error; no step of the create
\* changes the runner's tasks.
C15_NoInitCreateSetsActive ==
    [][\A p \in Clients :
          /\ (proc[p].pc = "idle" /\ proc'[p].op = "create" /\ proc'[p].pc = "done")
                => proc'[p].resp.code # OK
          /\ NoInitCreate(proc[p])
                => /\ (proc'[p].pc = "done" /\ proc'[p].resp.code = OK)
                         => /\ SetInitializedStep(p)
                            /\ attrs'[proc[p].uuid].status = Active
                   /\ Fault(p) => proc'[p].resp.code # OK
                   /\ (Step(p) \/ Fault(p)) => initTasks' = initTasks]_vars

\* A create of a master-slave Redis has answered 200: the service is ACTIVE
\* and the runner holds no task.
C15_Witness ==
    \E p \in Clients :
       /\ proc[p].op = "create" /\ proc[p].kind = "Redis" /\ proc[p].pc = "done"
       /\ proc[p].resp.code = OK
       /\ HasAttr(TheService) /\ ~attrs[TheService].cluster
       /\ StatusOf(TheService) = Active
       /\ initTasks = {}

InitCreate(pr) ==
    pr.op = "create" /\ pr.pc # "done" /\ RequiresInit(pr.kind, pr.opts)

\* The create registers its task with the service on the container platform
\* and every member stored, and answers 200 in that step and in no other; no
\* other step of the create changes the runner's tasks.
RegistersAfterCommit(p) ==
    /\ CreateAddInitTask(p)
          => /\ SvcName \in containers
             /\ Len(ListServiceMembers(proc[p].uuid)) = proc[p].opts.replicas
             /\ \E t \in initTasks' : t.uuid = proc[p].uuid
             /\ proc'[p].resp.code = OK
    /\ (proc'[p].pc = "done" /\ proc'[p].resp.code = OK) => CreateAddInitTask(p)
    /\ ((Step(p) \/ Fault(p)) /\ ~CreateAddInitTask(p)) => initTasks' = initTasks

Stage(resp) ==
    IF resp.code # OK THEN 0
    ELSE IF resp.initialized THEN 3
    ELSE IF resp.msg = MsgMongoRestart THEN 2
    ELSE IF resp.msg = MsgMongoAuth THEN 1
    ELSE 0

\* C17: the CheckServiceInit responses of a MongoDB service show its progress
\* in order: when a poll answers with the enable-auth or the restarting
\* message, no poll that returned before it has shown a later stage (the
\* restarting message before the enable-auth message, initialized = true
\* before either message).
C17_MongoDBProgressInOrder ==
    [][\A p, q \in Clients \cup Pollers :
          (/\ p # q
           /\ StoredKind = "MongoDB"
           /\ proc[q].op = "check" /\ proc[q].pc = "done"
           /\ proc[p].op = "check" /\ proc[p].pc # "done" /\ proc'[p].pc = "done"
           /\ Stage(proc'[p].resp) \in {1, 2})
             => Stage(proc'[p].resp) >= Stage(proc[q].resp)]_vars

\* The members in ms have the cluster.info slot of these NodeIds, and their
\* redis.conf is stored with auth enabled and their own static ip as the
\* cluster-announce-ip.
RedisMembersInitialized(u, ms, nodeIds) ==
    \A k \in DOMAIN ms :
       /\ \E j \in DOMAIN ms[k].configs :
             /\ ms[k].configs[j].fileName = ClusterInfoFileName
             /\ ms[k].configs[j].fileMD5 = [md5 |-> CreateClusterInfoFile(nodeIds).content]
       /\ \E j \in DOMAIN ms[k].configs :
             /\ ms[k].configs[j].fileName = RedisFileName
             /\ HasConfigFile(u, ms[k].configs[j].fileID)
             /\ GetConfigFile(u, ms[k].configs[j].fileID).content.auth
             /\ GetConfigFile(u, ms[k].configs[j].fileID).content.ip = ms[k].ip

\* C18: when SetRedisInit succeeds on a cluster-mode Redis service, every
\* member of the service is stored with the cluster.info slot of the
\* request's NodeIds and a redis.conf with auth and its own announce ip, and
\* the status is ACTIVE.
C18_RedisInitResult ==
    [][\A p \in Procs :
          (/\ proc[p].op = "redisinit"
           /\ SetInitializedStep(p)
           /\ proc'[p].resp.code = OK
           /\ attrs[proc[p].uuid].cluster)
             => /\ attrs'[proc[p].uuid].status = Active
                /\ UNCHANGED <<members, files>>
                /\ Len(ListServiceMembers(proc[p].uuid)) = attrs[proc[p].uuid].replicas
                /\ RedisMembersInitialized(proc[p].uuid,
                      ListServiceMembers(proc[p].uuid), proc[p].opts.nodeIds)]_vars

\* The SetRedisInit of the init job has succeeded on a cluster-mode service.
C18_Witness ==
    /\ proc[Job].op = "redisinit" /\ proc[Job].pc = "done"
    /\ proc[Job].resp.code = OK
    /\ HasAttr(TheService) /\ attrs[TheService].cluster
    /\ StatusOf(TheService) = Active
    /\ RedisMembersInitialized(TheService, ListServiceMembers(TheService), JobNodeIds)

\* The SetRedisInit of the init job has answered 200, and this run, with the
\* same NodeIds, found everything the job's run had to do done when it
\* listed the members; the service is ACTIVE.
RepeatedRedisInit(pr) ==
    /\ proc[Job].op = "redisinit" /\ proc[Job].pc = "done"
    /\ proc[Job].resp.code = OK
    /\ pr.op = "redisinit" /\ pr.pc \notin {"idle", "done", "r_get", "r_list"}
    /\ pr.opts.nodeIds = JobNodeIds
    /\ Len(pr.mems) > 0
    /\ RedisMembersInitialized(pr.uuid, pr.mems, pr.opts.nodeIds)
    /\ StatusOf(pr.uuid) = Active

\* C19: a SetRedisInit repeated with the same NodeIds after a successful run
\* is a no-op: it creates and deletes no config file, updates no member,
\* does not change the status, does not restart the containers, and succeeds.
C19_SecondRedisInitNoOp ==
    [][\A p \in Clients :
          (RepeatedRedisInit(proc[p]) /\ Step(p))
             => /\ UNCHANGED <<files, members, attrs>>
                /\ ~MutatorRestart(p)
                /\ proc'[p].pc = "done" => proc'[p].resp.code = OK]_vars

\* C20: when createRedisClusterFile finds the member's cluster.info slot with
\* an MD5 other than the new mapping's, SetRedisInit answers ConfigMismatch
\* in that step; it is at its first member and has written nothing, and the
\* step creates no file, updates no member, and sets no status.
C20_ClusterInfoMismatchRejected ==
    [][\A p \in Procs :
          (/\ RedisClusterFile(p)
           /\ proc[p].i <= Len(proc[p].mems)
           /\ \E j \in DOMAIN proc[p].mems[proc[p].i].configs :
                 /\ proc[p].mems[proc[p].i].configs[j].fileName = ClusterInfoFileName
                 /\ proc[p].mems[proc[p].i].configs[j].fileMD5
                       # [md5 |-> CreateClusterInfoFile(proc[p].opts.nodeIds).content])
             => /\ proc[p].i = 1
                /\ proc'[p].pc = "done"
                /\ proc'[p].resp.code = ConfigMismatch
                /\ UNCHANGED <<dbVars, platformVars>>]_vars

\* A SetRedisInit with other NodeIds is at a member of an initialized
\* cluster, whose cluster.info slot holds the first run's mapping.
C20_Witness ==
    \E p \in Clients :
       /\ At(p, "redisinit", "r_cluster")
       /\ proc[p].opts.nodeIds = NodeIdsB
       /\ proc[p].i <= Len(proc[p].mems)
       /\ RedisMembersInitialized(proc[p].uuid, proc[p].mems, NodeIdsA)
       /\ StatusOf(proc[p].uuid) = Active

\* C21: a request that names another cluster or region than the server's
\* (for the generic create, get and delete: also another service name than
\* the URL's) is answered BadRequest by the first step of its handler,
\* whichever handler it is, and that step leaves the metadata DB, the
\* container platform and the init tasks as they were.
C21_ForeignRequestRejected ==
    [][\A p \in Clients :
          ForeignRequest(p)
          => /\ proc'[p].pc = "done"
             /\ proc'[p].resp.code = BadRequest
             /\ UNCHANGED <<dbVars, platformVars, initTasks>>]_vars

\* A foreign deleteService is rejected while the service is stored with a
\* live init task.
C21_Witness ==
    /\ \E p \in Clients :
          /\ proc[p].op = "deleteService"
          /\ proc[p].pc = "done"
          /\ proc[p].resp.code = BadRequest
    /\ TheService # NoUUID
    /\ hasInitTask(TheService)

\* The step in which a CreateConsul answers 200.
ConsulCreated(p) ==
    /\ proc[p].op = "create" /\ proc[p].kind = "Consul"
    /\ proc[p].pc = "set_init"
    /\ proc'[p].pc = "done"
    /\ proc'[p].resp.code = OK

\* The stored basic config of member k of ms names member i by ms[i]'s
\* static ip, for every member i.
BasicConfigReplaced(fs, u, ms, k) ==
    \E j \in DOMAIN ms[k].configs :
       /\ ms[k].configs[j].fileName = ConsulFileName
       /\ \E f \in fs :
             /\ f.su = u /\ f.id = ms[k].configs[j].fileID
             /\ DOMAIN f.content.addrs = DOMAIN ms
             /\ \A i \in DOMAIN ms : f.content.addrs[i] = IPAddr(ms[i].ip)

StoredSlots ==
    {<<u, k, j>> \in (DOMAIN members) \X (1..MaxMembers) \X (1..3) :
        k \in DOMAIN members[u] /\ j \in DOMAIN members[u][k].configs}
SlotOf(s) == members[s[1]][s[2]].configs[s[3]]

\* C23: in every reachable state (after a server restart between any two
\* steps, a failed member update, a failed delete of the old file, and with
\* a client's and the init job's mutators on the same member) every fileID
\* a config slot of a stored member references is the id of a stored config
\* file of the service.
C23_SlotFilesExist ==
    \A s \in StoredSlots :
       \E f \in files : f.su = s[1] /\ f.id = SlotOf(s).fileID

\* A slot references a later version of its file while the first version is
\* still stored: its delete failed, or the server restarted before it.
C23_Witness ==
    \E s \in StoredSlots :
       /\ GetConfigFileVersion(SlotOf(s).fileID) >= 1
       /\ \E f \in files :
             /\ f.su = s[1]
             /\ f.id = [SlotOf(s).fileID EXCEPT !.v = 0]

\* The stored member k of service u has a cluster.info slot.
HasClusterInfoSlot(u, k) ==
    \E j \in DOMAIN members[u][k].configs :
       members[u][k].configs[j].fileName = ClusterInfoFileName

\* C24: whatever SetRedisInit, SetServiceInit and create requests run, one
\* after another or at the same time, no stored member has two config slots
\* of the same fileName; two SetRedisInit runs at the same time leave at
\* most one cluster.info slot in a member.
C24_SlotFileNamesUnique ==
    \A u \in DOMAIN members :
       \A k \in DOMAIN members[u] :
          \A i, j \in DOMAIN members[u][k].configs :
             members[u][k].configs[i].fileName = members[u][k].configs[j].fileName
                => i = j

\* Two SetRedisInit runs at once: one is about to append the cluster.info
\* slot to a member that the other has already given one.
C24_Witness ==
    \E p, q \in Procs :
       /\ p # q
       /\ proc[p].op = "redisinit" /\ proc[p].pc = "r_ccas"
       /\ proc[q].op = "redisinit" /\ proc[q].pc \notin {"idle", "done"}
       /\ proc[p].uuid \in DOMAIN members
       /\ \E k \in DOMAIN members[proc[p].uuid] :
             /\ members[proc[p].uuid][k].name = proc[p].member.name
             /\ HasClusterInfoSlot(proc[p].uuid, k)

\* Every stored member is still stored at its place in the list, with every
\* field but its config slots (member name, static ip) as it was.
MembersKept ==
    \A u \in DOMAIN members :
       /\ u \in DOMAIN members'
       /\ \A k \in DOMAIN members[u] :
             /\ k \in DOMAIN members'[u]
             /\ [members'[u][k] EXCEPT !.configs = members[u][k].configs]
                   = members[u][k]

\* The member update of updateMemberConfig by p: of the stored members only
\* the one p holds changes, and of its slots only the targeted one, which
\* keeps its fileName.
OnlyTargetedSlot(p) ==
    LET u == proc[p].uuid
        j == proc[p].j
    IN  \A k \in DOMAIN members[u] :
           LET old == members[u][k].configs
               new == members'[u][k].configs
           IN  IF members[u][k].name # proc[p].member.name THEN new = old
               ELSE /\ DOMAIN new = DOMAIN old
                    /\ \A i \in DOMAIN old : i # j => new[i] = old[i]
                    /\ new[j].fileName = old[j].fileName

\* The member update of createRedisClusterFile by p: the slots the members
\* have stay as they are, in place.
SlotsKept(p) ==
    LET u == proc[p].uuid
    IN  \A k \in DOMAIN members[u] :
           \A i \in DOMAIN members[u][k].configs :
              /\ i \in DOMAIN members'[u][k].configs
              /\ members'[u][k].configs[i] = members[u][k].configs[i]

LiveTask(u) == \E t \in initTasks : t.uuid = u /\ t.st # "failed"

FailedTasks(u) == {t \in initTasks : t.uuid = u /\ t.st = "failed"}

\* The run of the init job ends with an error.
TaskFails == proc[Job].pc = "done" /\ proc[Job].resp.code # OK /\ TaskEnd

\* C27: when the run of an init task fails, the task's entry stays in the
\* runner with the status message it had (the step changes no service
\* status); a failed entry stays a failed entry with its message (until the
\* process exits; only the status message calls of a later mutator run
\* write its message) and is never run again; and every CheckServiceInit
\* of a service with a failed entry answers 200 {initialized: false} with
\* the entry's status message, as it does while the service is INITIALIZING.
C27_FailedTaskRetained ==
    [][/\ TaskFails
          => /\ attrs' = attrs
             /\ \A t \in initTasks :
                   t.st = "running" => [t EXCEPT !.st = "failed"] \in initTasks'
       /\ \A t \in initTasks :
             t.st = "failed"
             => \/ Crash
                \/ t \in initTasks'
                \/ /\ \E p \in Procs : MutatorUpdateStatusMsg(p)
                   /\ \E t2 \in initTasks' :
                         [t2 EXCEPT !.msg = t.msg] = t
       /\ \A p \in Procs :
             (/\ At(p, "check", "k_has")
              /\ CheckHasTask(p)
              /\ FailedTasks(TheService) # {})
             => /\ proc'[p].pc = "done"
                /\ proc'[p].resp.code = OK
                /\ ~proc'[p].resp.initialized
                /\ \E t \in FailedTasks(TheService) : proc'[p].resp.msg = t.msg]_vars

\* A CheckServiceInit has answered with the message of the failed task of
\* an INITIALIZING service.
C27_Witness ==
    \E p \in Procs :
       /\ proc[p].op = "check" /\ proc[p].pc = "done"
       /\ proc[p].resp.code = OK /\ ~proc[p].resp.initialized
       /\ \E t \in FailedTasks(TheService) :
             t.msg # "" /\ proc[p].resp.msg = t.msg
       /\ StatusOf(TheService) = Initializing

\* In the store (ms: the members of the service, fs: the config files) the
\* config update of the mutator run pr is committed for the k-th member the
\* run listed: for setMongoDBInit its mongod.conf has auth enabled, for
\* setRedisInit it has the cluster.info slot of the run's NodeIds and its
\* redis.conf has auth and the member's static ip as the announce ip.
Committed(ms, fs, pr, k) ==
    \E m \in DOMAIN ms :
       /\ ms[m].name = pr.mems[k].name
       /\ \E j \in DOMAIN ms[m].configs, f \in fs :
             /\ f.su = pr.uuid /\ f.id = ms[m].configs[j].fileID
             /\ IF pr.op = "setinit"
                THEN ms[m].configs[j].fileName = MongoFileName /\ f.content.auth
                ELSE /\ ms[m].configs[j].fileName = RedisFileName
                     /\ f.content.auth /\ f.content.ip = ms[m].ip
       /\ pr.op = "redisinit"
          => \E j \in DOMAIN ms[m].configs :
                /\ ms[m].configs[j].fileName = ClusterInfoFileName
                /\ ms[m].configs[j].fileMD5
                      = [md5 |-> CreateClusterInfoFile(pr.opts.nodeIds).content]

\* The positions of a mutator run inside its loop over the members, and
\* those after the loop, up to the RestartService call.
LoopPcs == {"m_getcfg", "r_cluster", "r_ccas", "r_getcfg", "u_create", "u_cas", "u_delete"}
PastLoopPcs == {"m_msg2", "r_msg2", "restart"}
InMutator(pr) == pr.op \in {"setinit", "redisinit"}

MongoOrRedisRun(pr) ==
    \/ pr.op = "setinit" /\ pr.kind = "MongoDB"
    \/ pr.op = "redisinit"

ContentOfID(f) ==
    LET attr == attrs[f.su]
        ms == ListServiceMembers(f.su)
        base == IF f.name = SysFileName THEN [NoContent EXCEPT !.t = "sys"]
                ELSE MainContent(attr.kind, attr.replicas)
        owner == CHOOSE k \in DOMAIN ms : ms[k].name = f.id.m
    IN  IF f.id.v = 0 THEN base
        ELSE IF f.name = MongoFileName THEN [base EXCEPT !.auth = TRUE]
        ELSE IF f.name = RedisFileName
        THEN [base EXCEPT !.auth = TRUE, !.ip = ms[owner].ip]
        ELSE [base EXCEPT !.addrs = [i \in DOMAIN ms |-> IPAddr(ms[i].ip)]]

\* C30: the member update of an updateMemberConfig makes the targeted slot
\* reference the fileID of member name, file name and v+1, v being the
\* version of the fileID the slot referenced before; no step lowers the
\* version a slot references; and a fileID is bound to one content: the
\* store never holds two files of one id, the md5 of a stored file is that
\* of its content, a file other than cluster.info has the content that goes
\* with its id whenever it is stored, and a cluster.info file, once stored,
\* stays as it is.
C30_VersionedFileIDs ==
    /\ [](\A f, g \in files :
            /\ (f.su = g.su /\ f.id = g.id) => f = g
            /\ f.md5 = [md5 |-> f.content]
            /\ f.name # ClusterInfoFileName => f.content = ContentOfID(f))
    /\ [][/\ \A f \in files : f.name = ClusterInfoFileName => f \in files'
          /\ \A u \in DOMAIN members :
                \A k \in DOMAIN members[u] :
                   \A j \in DOMAIN members[u][k].configs :
                      members'[u][k].configs[j].fileID.v
                         >= members[u][k].configs[j].fileID.v
          /\ \A p \in Procs :
                (proc[p].pc = "u_cas" /\ UpdateCASMember(p) /\ members' # members)
                => \E k \in DOMAIN members[proc[p].uuid] :
                      LET old == members[proc[p].uuid][k].configs[proc[p].j]
                          new == members'[proc[p].uuid][k].configs[proc[p].j]
                      IN  /\ members[proc[p].uuid][k].name = proc[p].member.name
                          /\ new.fileID = [m |-> proc[p].member.name,
                                           f |-> old.fileName,
                                           v |-> old.fileID.v + 1]
                          /\ new.fileMD5 = [md5 |-> proc[p].nf.content]
                          /\ \E f \in files' :
                                /\ f.su = proc[p].uuid /\ f.id = new.fileID
                                /\ f.md5 = new.fileMD5]_vars

\* A slot references version 1 of its file after an updateMemberConfig.
C30_Witness ==
    \E p \in Procs :
       /\ proc[p].pc = "u_delete"
       /\ \E k \in DOMAIN members[proc[p].uuid] :
             /\ members[proc[p].uuid][k].name = proc[p].member.name
             /\ members[proc[p].uuid][k].configs[proc[p].j].fileID.v = 1
             /\ proc[p].cf.id.v = 0

\* The stored member that p's updateMemberConfig works on references the
\* new file in the slot the call targets.
ReferencesNewFile(ms, pr) ==
    \E k \in DOMAIN ms :
       /\ ms[k].name = pr.member.name
       /\ pr.j \in DOMAIN ms[k].configs
       /\ ms[k].configs[pr.j].fileID = pr.nf.id
       /\ ms[k].configs[pr.j].fileMD5 = pr.nf.md5

\* C31: updateMemberConfig reaches the delete of the old file only from a
\* member update that succeeded; a config file leaves the store only by
\* that delete, and it is the old file of the call; a delete that fails is
\* not propagated: the call returns success (its caller goes on with the
\* next member), the stored member references the new file, the store and
\* the old file stay as they are.
C31_DeleteAfterCAS ==
    [][/\ \A f \in files :
             f \notin files'
             => \E p \in Procs :
                   /\ proc[p].pc = "u_delete"
                   /\ f.su = proc[p].cf.su /\ f.id = proc[p].cf.id
                   /\ proc'[p].pc = proc[p].back
       /\ \A p \in Procs :
             LET pr == proc[p]
             IN  /\ (proc'[p].pc = "u_delete" /\ pr.pc # "u_delete")
                    => /\ pr.pc = "u_cas"
                       /\ \E k \in DOMAIN members[pr.uuid] : members[pr.uuid][k] = pr.member
                       /\ ReferencesNewFile(members'[pr.uuid], pr)
                 /\ (pr.pc = "u_delete" /\ UpdateDeleteOld(p, FALSE))
                    => /\ proc'[p].pc = pr.back /\ proc'[p].pc # "done"
                       /\ proc'[p].i = pr.i + 1
                       /\ files' = files /\ members' = members
                       /\ ReferencesNewFile(members'[pr.uuid], pr)
                 /\ (pr.pc = "u_delete" /\ UpdateDeleteOld(p, TRUE))
                    => /\ proc'[p].pc = pr.back
                       /\ ReferencesNewFile(members'[pr.uuid], pr)]_vars

\* A mutator is past the updateMemberConfig of its member, and the file the
\* member's slot referenced before is still stored, as garbage.
C31_Witness ==
    \E p \in Procs :
       /\ proc[p].pc \in {"m_getcfg", "r_cluster", "c_getcfg"}
       /\ proc[p].i = 2
       /\ \E s \in StoredSlots :
             /\ s[1] = proc[p].uuid
             /\ GetConfigFileVersion(SlotOf(s).fileID) >= 1
             /\ \E f \in files :
                   /\ f.su = s[1]
                   /\ f.id = [SlotOf(s).fileID EXCEPT !.v = @ - 1]

\* The stored member differs from the image p's updateMemberConfig expects.
StaleImage(pr) ==
    \A k \in DOMAIN ListServiceMembers(pr.uuid) :
       ListServiceMembers(pr.uuid)[k] # pr.member

\* C32: when the member update of updateMemberConfig finds the stored
\* member different from the image the handler read, the handler returns
\* an error; the stored members are unchanged and no config file is
\* deleted (the old file stays stored), nor is any other state changed.
C32_FailedCASKeepsState ==
    [][\A p \in Procs :
          (proc[p].pc = "u_cas" /\ StaleImage(proc[p]) /\ UpdateCASMember(p))
          => /\ proc'[p].pc = "done"
             /\ proc'[p].resp.code \notin {OK, ""}
             /\ members' = members
             /\ files' = files
             /\ UNCHANGED <<services, attrs, containers, initTasks>>]_vars

\* A handler is at its member update with an image another mutator run has
\* replaced meanwhile: the stored member references that run's new file,
\* and the file this handler fetched is still stored.
C32_Witness ==
    \E p, q \in Procs :
       /\ p # q
       /\ proc[p].pc = "u_cas" /\ StaleImage(proc[p])
       /\ proc[q].pc = "u_delete" /\ proc[q].uuid = proc[p].uuid
       /\ proc[q].member.name = proc[p].member.name
       /\ ReferencesNewFile(ListServiceMembers(proc[q].uuid), proc[q])
       /\ proc[p].cf \in files

\* p is at one of the two conditional member updates of the mutators.
AtMemberUpdate(pr) == pr.pc \in {"u_cas", "r_ccas"}

\* The member update p is at, as a step.
MemberUpdateStep(p) == UpdateCASMember(p) \/ RedisClusterCAS(p)

\* C33: with two mutator runs on one service at once (a client's
\* SetServiceInit or SetRedisInit and the init job's) no member update is
\* lost: a member update succeeds only on the image that is stored, and it
\* leaves every other run that holds this image with a stale one; a run
\* whose image is stale gets an error from its member update and writes
\* nothing; and when a run of setMongoDBInit or setRedisInit sets the
\* service ACTIVE, the referenced config files of every stored member
\* contain the run's mutation.
C33_NoLostUpdate ==
    [][\A p \in Procs :
          LET pr == proc[p]
          IN  /\ (AtMemberUpdate(pr) /\ MemberUpdateStep(p) /\ members' # members)
                 => /\ \E k \in DOMAIN members[pr.uuid] : members[pr.uuid][k] = pr.member
                    /\ \A q \in Procs \ {p} :
                          (/\ AtMemberUpdate(proc[q])
                           /\ proc[q].uuid = pr.uuid
                           /\ proc[q].member.name = pr.member.name)
                          => \A k \in DOMAIN members'[pr.uuid] :
                                members'[pr.uuid][k] # proc'[q].member
              /\ (AtMemberUpdate(pr) /\ StaleImage(pr) /\ MemberUpdateStep(p))
                 => /\ proc'[p].pc = "done"
                    /\ proc'[p].resp.code \notin {OK, ""}
                    /\ members' = members
              /\ (/\ MongoOrRedisRun(pr) /\ pr.pc = "set_init"
                  /\ SetInitializedStep(p) /\ proc'[p].resp.code = OK)
                 => /\ attrs'[pr.uuid].status = Active
                    /\ Len(members'[pr.uuid]) = attrs'[pr.uuid].replicas
                    /\ \A m \in DOMAIN members'[pr.uuid] :
                          \E k \in DOMAIN pr.mems :
                             /\ pr.mems[k].name = members'[pr.uuid][m].name
                             /\ Committed(members'[pr.uuid], files', pr, k)]_vars

\* Two mutator runs on one service at once: one has set the service ACTIVE
\* and answered 200, the other is at its member update with a stale image.
C33_Witness ==
    \E p, q \in Procs :
       /\ p # q
       /\ MongoOrRedisRun(proc[p])
       /\ proc[p].pc = "done" /\ proc[p].resp.code = OK
       /\ MongoOrRedisRun(proc[q])
       /\ AtMemberUpdate(proc[q]) /\ StaleImage(proc[q])
       /\ proc[q].uuid = TheService
       /\ StatusOf(TheService) = Active

\* The positions of a create at its IsServiceExist call and at its
\* CreateService call on the container platform.
ExistPcs == {"cc_exist", "g_exist"}
ContainerCreatePcs == {"cc_create", "g_create"}

\* C34: a create calls the container platform's CreateService only when
\* its IsServiceExist call has reported the service absent (and only a
\* create changes the services of the container platform); when the
\* service is reported present the create skips the call and goes on, the
\* generic create to its 200; when the IsServiceExist call fails the
\* create returns the error without calling CreateService.
C34_CreateOnlyWhenAbsent ==
    [][/\ containers' # containers
          => \E p \in Procs :
                proc[p].pc \in ContainerCreatePcs /\ CreateContainerService(p)
       /\ \A p \in Procs :
             LET pr == proc[p]
             IN  /\ (proc'[p].pc \in ContainerCreatePcs /\ pr.pc # proc'[p].pc)
                    => /\ pr.pc \in ExistPcs
                       /\ SvcName \notin containers
                       /\ IsServiceExist(p)
                 /\ (pr.pc \in ExistPcs /\ SvcName \in containers /\ IsServiceExist(p))
                    => /\ proc'[p].pc = (IF pr.pc = "g_exist" THEN "g_done" ELSE "cc_flip")
                       /\ containers' = containers
                 /\ (pr.pc = "g_done" /\ proc'[p] # pr)
                    => \/ proc'[p].pc = "done" /\ proc'[p].resp.code = OK
                       \/ Crash
                 /\ (pr.pc \in ExistPcs /\ Fault(p))
                    => /\ proc'[p].pc = "done"
                       /\ proc'[p].resp.code \notin {OK, ""}
                       /\ containers' = containers
                 /\ (pr.pc \in ExistPcs /\ proc'[p].pc = "done")
                    => proc'[p].resp.code # OK]_vars

\* A generic create (a retry) is at its IsServiceExist call, the control
\* plane holding the service and its members, while the service exists on
\* the container platform.
C34_Witness ==
    \E p \in Clients :
       /\ proc[p].op = "gencreate" /\ proc[p].pc = "g_exist"
       /\ SvcName \in containers
       /\ Len(ListServiceMembers(proc[p].uuid)) = MaxMembers

\* The positions of a create inside the control-plane create.
ControlPlanePcs == {"cs_service", "cs_attr", "cs_files", "cs_member"}
\* The positions of the generic create at and after its calls of the
\* container platform.
GenericPlatformPcs == {"g_exist", "g_create", "g_done"}

\* The control plane holds the service of the create pr: the Service record
\* has been given a serviceUUID, the ServiceAttr is stored with the
\* parameters of the request, and every member is stored.
ControlPlaneCreated(pr) ==
    /\ pr.uuid # NoUUID
    /\ HasAttr(pr.uuid)
    /\ attrs[pr.uuid].kind = pr.kind
    /\ attrs[pr.uuid].replicas = pr.opts.replicas
    /\ Len(ListServiceMembers(pr.uuid)) = pr.opts.replicas

\* C35: the generic create contacts the container platform only after its
\* control-plane create has succeeded (Service record, ServiceAttr, every
\* member with its static ip and default config files); a generic create
\* whose control-plane create fails returns the error without calling
\* IsServiceExist or CreateService.
C35_PlatformAfterControlPlane ==
    /\ [](\A p \in Clients :
            (proc[p].op = "gencreate" /\ proc[p].pc \in GenericPlatformPcs)
            => ControlPlaneCreated(proc[p]))
    /\ [][\A p \in Clients :
            LET pr == proc[p]
            IN  pr.op = "gencreate" =>
                /\ (proc'[p].pc = "g_exist" /\ pr.pc # "g_exist")
                   => /\ pr.pc = "cs_files" /\ pr.i > pr.opts.replicas
                      /\ CreateMemberFiles(p)
                /\ (pr.pc \in ControlPlanePcs /\ proc'[p] # pr)
                   => /\ proc'[p].pc \in ControlPlanePcs \cup {"g_exist", "done", "idle"}
                      /\ containers' = containers
                      /\ proc'[p].pc = "done" => proc'[p].resp.code \notin {OK, ""}
                /\ (pr.pc = "idle" /\ proc'[p].op = "gencreate")
                   => proc'[p].pc \in {"cs_service", "done"}]_vars

\* A generic create has returned the error of its control-plane create (the
\* service is stored with other parameters) and the service does not exist
\* on the container platform.
C35_Witness ==
    \E p \in Clients :
       /\ proc[p].op = "gencreate" /\ proc[p].pc = "done"
       /\ proc[p].resp.code = Conflict
       /\ SvcName \notin containers

\* A CreateConsul request.
ConsulCreate(pr) == pr.op = "create" /\ pr.kind = "Consul"
\* Its positions inside updateConsulConfigs, and from createContainerService on.
RewritePcs == {"c_list", "c_getcfg", "u_create", "u_cas", "u_delete"}
AfterRewritePcs == {"cc_exist", "cc_create", "cc_flip", "set_init"}

\* C36: CreateConsul rewrites the basic config of every member after the
\* control-plane create and before it contacts the container platform:
\* the rewrite starts when the control-plane create is through, the
\* container-platform create starts only when the loop over the members is
\* through, and from then on every stored member's basic config names the
\* members by their static ips; no step of the rewrite touches the
\* container platform or a service status, and a rewrite that fails ends
\* the request with an error and without ConsulServerIPs.
C36_ConsulRewriteOrder ==
    /\ [](\A p \in Clients :
            (ConsulCreate(proc[p]) /\ proc[p].pc \in AfterRewritePcs)
            => /\ Len(ListServiceMembers(proc[p].uuid)) = proc[p].opts.replicas
               /\ \A k \in DOMAIN ListServiceMembers(proc[p].uuid) :
                     BasicConfigReplaced(files, proc[p].uuid,
                                         ListServiceMembers(proc[p].uuid), k))
    /\ [][\A p \in Clients :
            LET pr == proc[p]
            IN  ConsulCreate(pr) =>
                /\ (proc'[p].pc = "c_list" /\ pr.pc # "c_list")
                   => /\ pr.pc = "cs_files" /\ pr.i > pr.opts.replicas
                      /\ CreateMemberFiles(p)
                /\ (proc'[p].pc \in AfterRewritePcs /\ pr.pc \notin AfterRewritePcs)
                   => /\ pr.pc = "c_getcfg" /\ pr.i > Len(pr.mems)
                      /\ proc'[p].pc = "cc_exist"
                /\ (pr.pc \in RewritePcs /\ proc'[p] # pr)
                   => /\ containers' = containers
                      /\ attrs' = attrs
                      /\ proc'[p].pc \in RewritePcs \cup {"cc_exist", "done", "idle"}
                      /\ proc'[p].pc = "done"
                         => /\ proc'[p].resp.code \notin {OK, ""}
                            /\ proc'[p].resp.ips = << >>]_vars

\* A CreateConsul has returned an error after its rewrite created the next
\* version of a basic config that no member references: the member update
\* failed; the service is not on the container platform and still CREATING.
C36_Witness ==
    \E p \in Clients :
       /\ ConsulCreate(proc[p]) /\ proc[p].pc = "done"
       /\ proc[p].resp.code \notin {OK, ""} /\ proc[p].resp.ips = << >>
       /\ SvcName \notin containers
       /\ StatusOf(TheService) = Creating
       /\ \E f \in files :
             /\ f.su = TheService /\ f.name = ConsulFileName /\ f.id.v = 1
             /\ \A s \in StoredSlots : s[1] = TheService => SlotOf(s).fileID # f.id

\* A SetServiceInit request of a serviceType that only needs the flip.
FlipOnlySetInit(pr) == pr.op = "setinit" /\ pr.kind \in {"Cassandra", "CouchDB"}

\* C37: SetServiceInit dispatches on the serviceType of the request: a
\* Cassandra or CouchDB request goes straight to setServiceInitialized, and
\* no step of it changes a config file, a member or the container platform
\* or restarts the containers: its only write is the status ACTIVE; a
\* MongoDB request runs setMongoDBInit; a request of any other serviceType
\* is answered BadRequest; and the dispatch itself changes no state.
C37_SetServiceInitDispatch ==
    /\ [](\A p \in Procs :
            FlipOnlySetInit(proc[p]) => proc[p].pc \in {"set_init", "done"})
    /\ [][\A p \in Procs :
            LET pr == proc[p]
            IN  /\ \A type \in ReqTypes :
                      (pr.pc = "idle" /\ StartSetServiceInit(p, type, TRUE))
                      => /\ proc'[p].op = "setinit" /\ proc'[p].kind = type
                         /\ type = "MongoDB" => proc'[p].pc = "m_get"
                         /\ type \in {"Cassandra", "CouchDB"} => proc'[p].pc = "set_init"
                         /\ type \notin {"MongoDB", "Cassandra", "CouchDB"}
                            => /\ proc'[p].pc = "done"
                               /\ proc'[p].resp.code = BadRequest
                         /\ UNCHANGED <<dbVars, platformVars, initTasks>>
                /\ (pr.pc = "idle" /\ proc'[p].op = "setinit")
                   => /\ UNCHANGED <<dbVars, platformVars>>
                      /\ proc'[p].pc = "m_get" => proc'[p].kind = "MongoDB"
                      /\ proc'[p].pc = "set_init"
                            => proc'[p].kind \in {"Cassandra", "CouchDB"}
                      /\ proc'[p].pc \in {"m_get", "set_init", "done"}
                      /\ proc'[p].pc = "done" => proc'[p].resp.code = BadRequest
                /\ (FlipOnlySetInit(pr) /\ proc'[p] # pr /\ ~Crash)
                   => /\ pr.pc = "set_init" => proc'[p].pc = "done"
                      /\ UNCHANGED <<services, uuidCount, members, files, containers>>
                      /\ attrs' # attrs
                         => /\ SetInitializedStep(p)
                            /\ attrs' = [attrs EXCEPT ![TheService].status = Active]
                            /\ proc'[p].resp.code = OK]_vars

\* A SetServiceInit of a Cassandra or CouchDB service has answered 200 and
\* the service is ACTIVE.
C37_Witness ==
    \E p \in Procs :
       /\ FlipOnlySetInit(proc[p])
       /\ proc[p].pc = "done" /\ proc[p].resp.code = OK
       /\ StatusOf(TheService) = Active
       /\ StoredKind = proc[p].kind

\* The process holds the response {initialized: true} of a CheckServiceInit.
HeldTrue(pr) ==
    /\ pr.op = "check" /\ pr.pc = "done"
    /\ pr.resp.code = OK /\ pr.resp.initialized

\* The response 200 {initialized: false}.
NotInitializedResp(pr) ==
    /\ pr.pc = "done" /\ pr.resp.code = OK /\ ~pr.resp.initialized

AtAddInitTask(pr) ==
    \/ pr.op = "create" /\ pr.pc = "add_task"
    \/ pr.op = "check" /\ pr.pc = "k_add"

HTTPErrors == {BadRequest, NotFound, Conflict, Internal, ConfigMismatch}

\* C40: a SetRedisInit whose cluster and region match and whose NodeIds
\* list is empty is answered with an HTTP error and changes no state: no
\* config file, no member, no container restart, no status change.
C40_EmptyNodeIdsRejected ==
    [][\A p \in Clients :
          StartSetRedisInit(p, << >>, TRUE)
          => /\ proc'[p].pc = "done"
             /\ proc'[p].resp.code \in HTTPErrors
             /\ UNCHANGED <<dbVars, platformVars, initTasks>>]_vars

====
